---- MODULE Spec2Model ----
(***************************************************************************)
(* Model of facts/analyze_odm_reconstruction.py: one run of main(), from   *)
(* the argument check to the process exit.  The file system, the raster    *)
(* library and the plotting library are the environment: what they hold or *)
(* answer is chosen when the code asks for it.  The scripts                *)
(* facts/normalize_ascii_quotes.py, facts/collect_odm_run_record.py and    *)
(* unifi/extract_tech_specs.py follow, each with a specification of its    *)
(* own (SpecQuotes, SpecRecord, SpecTechSpecs) and its own variables.      *)
(*                                                                         *)
(* Encodings.  A filename is a sequence of character codes, compared as    *)
(* Python compares str.  A JSON object is a function from field names to   *)
(* values, so "k in d" is k \in DOMAIN d.  latitude and longitude are      *)
(* integers in units of 1e-7 degree, altitude in units of 0.01 m,          *)
(* exposure_time in units of 1/ExpScale second.  A table cell is <<>> when *)
(* blank, <<"num", n>> for a formatted number, <<"1/", n>> for a           *)
(* reciprocal fraction and <<"str", v>> for str(v).                        *)
(***************************************************************************)
EXTENDS Integers, Sequences, FiniteSets, TLC

\* Longest images.json array and longest features array that are explored.
MaxImages == 2
MaxShots == 2

\* One second of exposure_time, in the model's unit (the "1" of exp < 1).
ExpScale == 1000

VARIABLES
    pc,             \* position in main()
    argv_len,       \* len(sys.argv)
    fs_exists,      \* which of the two required manifests exist under odm_dir
    exit_code,      \* process exit status, -1 while running
    raised,         \* uncaught exception type, "" if none
    stdout, stderr, \* messages printed so far
    files_read,     \* paths opened for reading
    dirs_created,   \* directories created by mkdir(parents=True)
    png_written,    \* reconstruction_status.png written by this run
    md_file,        \* <<>> or <<content>> of dropped-images.md written by this run
    shots_geojson,  \* gj["features"] as loaded from odm_report/shots.geojson
    all_images, shots, reconstructed, dropped,
    i,              \* loop index of "for img in all_images"
    ortho_path, use_ortho, ortho_crs,
    fig,            \* what has been drawn on the axes
    lines,          \* the Markdown report being built
    files_written,  \* paths this run has written
    disk_images,    \* images.json as first read (the file stays as it is)
    disk_shots,     \* features of shots.geojson as first read
    second_run,     \* this is a re-run over the output of an earlier run
    prev_png,       \* reconstruction_status.png left by the earlier run
    prev_md         \* <<>> or <<content>> of dropped-images.md left by the earlier run

\* facts/normalize_ascii_quotes.py
VARIABLES
    nq_pc,          \* position in main()
    nq_argv_len,    \* len(sys.argv)
    nq_isdir,       \* os.path.isdir(root)
    nq_disk,        \* content of every file under root, by relative path
    nq_orig,        \* nq_disk as it was when the script started
    nq_stack,       \* directories os.walk has still to yield
    nq_dirpath,     \* the directory being listed
    nq_files,       \* names of "files" the inner loop has still to take
    changed,        \* the list "changed"
    nq_written,     \* relative paths opened for writing
    nq_stdout, nq_stderr,
    nq_exit,        \* process exit status, -1 while running
    nq_first_stdout \* what an earlier run over the same root printed, <<>> in a first run

\* facts/collect_odm_run_record.py
VARIABLES
    rr_pc,          \* position in main()
    rr_argv_len,    \* len(sys.argv)
    rr_isdir,       \* map_dir.is_dir()
    rr_exists,      \* which of log.json, odm_report/stats.json, odm_option_defaults.json exist
    rr_read,        \* the files read, in the order of reading
    defaults,       \* the defaults dictionary
    options,        \* log_data.get("options", {})
    stats_data,
    rr_k,           \* position of "for key in sorted(log_options.keys())"
    out,            \* the list non_default_options builds
    rr_stdout, rr_stderr,
    rr_raised,      \* uncaught exception type, "" if none
    rr_exit         \* process exit status, -1 while running

\* unifi/extract_tech_specs.py
VARIABLES
    ts_pc,          \* position in extract_tech_specs()
    page,           \* what the request for url and the parsing of the page gave
    sections,       \* spec.get('sections', [])
    ts_n,           \* position of "for section in sections"
    ts_result,      \* the dictionary "result" being built
    ts_returned,    \* "" while running, then "None" or "dict" (the value of ts_result)
    ts_stderr

\* facts/collect_imageset_exif.py
VARIABLES
    ex_pc,          \* position in main()
    ex_argv_len,    \* len(sys.argv)
    ex_isdir,       \* folder.is_dir()
    folder,         \* the entries of the folder, by name
    image_paths,    \* the sorted list of the JPEG files
    ex_n,           \* position of "for path in image_paths"
    alts, lats, lons,
    ex_stdout, ex_stderr,
    ex_exit         \* process exit status, -1 while running

analyze_vars == <<pc, argv_len, fs_exists, exit_code, raised, stdout, stderr, files_read,
                  dirs_created, png_written, md_file, shots_geojson, all_images,
                  shots, reconstructed, dropped, i, ortho_path, use_ortho,
                  ortho_crs, fig, lines, files_written, disk_images, disk_shots,
                  second_run, prev_png, prev_md>>

quotes_vars == <<nq_pc, nq_argv_len, nq_isdir, nq_disk, nq_orig, nq_stack, nq_dirpath,
                 nq_files, changed, nq_written, nq_stdout, nq_stderr, nq_exit,
                 nq_first_stdout>>

record_vars == <<rr_pc, rr_argv_len, rr_isdir, rr_exists, rr_read, defaults, options,
                 stats_data, rr_k, out, rr_stdout, rr_stderr, rr_raised, rr_exit>>

techspecs_vars == <<ts_pc, page, sections, ts_n, ts_result, ts_returned, ts_stderr>>

exif_vars == <<ex_pc, ex_argv_len, ex_isdir, folder, image_paths, ex_n, alts, lats, lons,
               ex_stdout, ex_stderr, ex_exit>>

vars == <<analyze_vars, quotes_vars, record_vars, techspecs_vars, exif_vars>>

\* The variables of the scripts other than the one that is running.
not_analyze == <<quotes_vars, record_vars, techspecs_vars, exif_vars>>
not_quotes == <<analyze_vars, record_vars, techspecs_vars, exif_vars>>
not_record == <<analyze_vars, quotes_vars, techspecs_vars, exif_vars>>
not_techspecs == <<analyze_vars, quotes_vars, record_vars, exif_vars>>
not_exif == <<analyze_vars, quotes_vars, record_vars, techspecs_vars>>

\* Each script is a process of its own: while one runs, the others are not
\* started and their variables stay as below.
AnalyzeIdle ==
    /\ pc = "not started"
    /\ argv_len = 0
    /\ fs_exists = {}
    /\ exit_code = -1
    /\ raised = ""
    /\ stdout = <<>>
    /\ stderr = <<>>
    /\ files_read = {}
    /\ dirs_created = {}
    /\ png_written = FALSE
    /\ md_file = <<>>
    /\ shots_geojson = <<>>
    /\ all_images = <<>>
    /\ shots = <<>>
    /\ reconstructed = <<>>
    /\ dropped = <<>>
    /\ i = 0
    /\ ortho_path = "None"
    /\ use_ortho = FALSE
    /\ ortho_crs = "None"
    /\ fig = <<>>
    /\ lines = <<>>
    /\ files_written = {}
    /\ disk_images = <<>>
    /\ disk_shots = <<>>
    /\ second_run = FALSE
    /\ prev_png = FALSE
    /\ prev_md = <<>>

QuotesIdle ==
    /\ nq_pc = "not started"
    /\ nq_argv_len = 0
    /\ nq_isdir = FALSE
    /\ nq_disk = <<>>
    /\ nq_orig = <<>>
    /\ nq_stack = <<>>
    /\ nq_dirpath = <<>>
    /\ nq_files = {}
    /\ changed = <<>>
    /\ nq_written = {}
    /\ nq_stdout = <<>>
    /\ nq_stderr = <<>>
    /\ nq_exit = -1
    /\ nq_first_stdout = <<>>

RecordIdle ==
    /\ rr_pc = "not started"
    /\ rr_argv_len = 0
    /\ rr_isdir = FALSE
    /\ rr_exists = {}
    /\ rr_read = <<>>
    /\ defaults = <<>>
    /\ options = <<>>
    /\ stats_data = <<>>
    /\ rr_k = 0
    /\ out = <<>>
    /\ rr_stdout = <<>>
    /\ rr_stderr = <<>>
    /\ rr_raised = ""
    /\ rr_exit = -1

TechSpecsIdle ==
    /\ ts_pc = "not started"
    /\ page = ""
    /\ sections = <<>>
    /\ ts_n = 0
    /\ ts_result = <<>>
    /\ ts_returned = ""
    /\ ts_stderr = <<>>

ExifIdle ==
    /\ ex_pc = "not started"
    /\ ex_argv_len = 0
    /\ ex_isdir = FALSE
    /\ folder = <<>>
    /\ image_paths = <<>>
    /\ ex_n = 0
    /\ alts = <<>>
    /\ lats = <<>>
    /\ lons = <<>>
    /\ ex_stdout = <<>>
    /\ ex_stderr = <<>>
    /\ ex_exit = -1

Range(s) == {s[k] : k \in 1..Len(s)}

SeqsUpTo(S, n) == UNION {[1..k -> S] : k \in 0..n}

----------------------------------------------------------------------------
(* Inputs *)

fn_a == <<1>>
fn_ab == <<1, 2>>
fn_b == <<2>>
fn_c == <<3>>

\* Objects of images.json.  Only filename, latitude and longitude are
\* required by the format; the others may be absent.
InputImageRecords == {
    [filename |-> fn_a, latitude |-> 404, longitude |-> 1216,
     altitude |-> 1234, exposure_time |-> 5, iso_speed |-> 100, fnumber |-> 28],
    [filename |-> fn_ab, latitude |-> 418, longitude |-> 1227,
     altitude |-> 1238, exposure_time |-> 2000, iso_speed |-> 200, fnumber |-> 28],
    [filename |-> fn_b, latitude |-> 423, longitude |-> 1232,
     exposure_time |-> 5, iso_speed |-> 100, fnumber |-> 28],
    [filename |-> fn_b, latitude |-> 437, longitude |-> 1243,
     altitude |-> 1262, exposure_time |-> 0, iso_speed |-> 100],
    [filename |-> fn_c, latitude |-> 441, longitude |-> 1254,
     altitude |-> 1271],
    [filename |-> fn_c, latitude |-> 456, longitude |-> 1268,
     altitude |-> 1283, exposure_time |-> 1000, fnumber |-> 56],
    [filename |-> fn_ab, latitude |-> 462, longitude |-> 1273,
     altitude |-> 1296, exposure_time |-> 600, iso_speed |-> 400, fnumber |-> 56],
    [filename |-> fn_ab, altitude |-> 1238, exposure_time |-> 5]
}

\* Features of odm_report/shots.geojson, flattened to the three values read.
ShotFeatures == {
    [filename |-> f, coordinates |-> <<c, c + 1>>, translation |-> <<t, t + 1, t + 2>>] :
        f \in {fn_a, fn_b}, <<c, t>> \in {<<1216, 10>>, <<1226, 20>>}
}

ImageManifests == SeqsUpTo(InputImageRecords, MaxImages)
ShotManifests == SeqsUpTo(ShotFeatures, MaxShots)

\* The two manifests main() requires under odm_dir.
RequiredPaths == {"images.json", "odm_report/shots.geojson"}

\* The two conventional orthophoto paths, in the order find_ortho tries them.
OrthoPaths == <<"odm_orthophoto/odm_orthophoto.tif", "odm_orthophoto.tif">>

----------------------------------------------------------------------------
(* Pure helpers *)

\* Python str comparison a < b on sequences of character codes.
RECURSIVE StrLess(_, _)
StrLess(a, b) ==
    IF b = <<>> THEN FALSE
    ELSE IF a = <<>> THEN TRUE
    ELSE IF Head(a) # Head(b) THEN Head(a) < Head(b)
    ELSE StrLess(Tail(a), Tail(b))

\* result[k] = v of a dict.
DictPut(d, k, v) == [x \in DOMAIN d \cup {k} |-> IF x = k THEN v ELSE d[x]]

EmptyDict == [x \in {} |-> <<>>]

\* ShotsOf with an off-by-one that never reads the last feature.
RECURSIVE ShotsOf_skip_last(_, _)
ShotsOf_skip_last(features, result) ==
    IF Len(features) <= 1 THEN result
    ELSE ShotsOf_skip_last(Tail(features),
                 DictPut(result, Head(features).filename,
                         [lon |-> Head(features).coordinates[1],
                          lat |-> Head(features).coordinates[2],
                          translation |-> Head(features).translation]))

\* ShotsOf that keeps the entry a filename already has.
RECURSIVE ShotsOf_first_wins(_, _)
ShotsOf_first_wins(features, result) ==
    IF features = <<>> THEN result
    ELSE ShotsOf_first_wins(Tail(features),
                 IF Head(features).filename \in DOMAIN result THEN result
                 ELSE DictPut(result, Head(features).filename,
                              [lon |-> Head(features).coordinates[1],
                               lat |-> Head(features).coordinates[2],
                               translation |-> Head(features).translation]))

\* The loop of load_reconstructed_shots over gj["features"].
RECURSIVE ShotsOf(_, _)
ShotsOf(features, result) ==
    IF features = <<>> THEN result
    ELSE ShotsOf(Tail(features),
                 DictPut(result, Head(features).filename,
                         [lon |-> Head(features).coordinates[1],
                          lat |-> Head(features).coordinates[2],
                          translation |-> Head(features).translation]))

find_ortho(existing) ==
    IF OrthoPaths[1] \in existing THEN OrthoPaths[1]
    ELSE IF OrthoPaths[2] \in existing THEN OrthoPaths[2]
    ELSE "None"

\* sorted(seq, key=lambda x: x["filename"]): stable, ascending by filename.
RECURSIVE InsertByFilename(_, _)
InsertByFilename(sortedSeq, img) ==
    IF sortedSeq = <<>> THEN <<img>>
    ELSE IF StrLess(img.filename, Head(sortedSeq).filename)
         THEN <<img>> \o sortedSeq
         ELSE <<Head(sortedSeq)>> \o InsertByFilename(Tail(sortedSeq), img)

\* sorted() left out: the rows keep the manifest order.
SortedByFilename_unsorted(seq) == seq

RECURSIVE SortedByFilename(_)
SortedByFilename(seq) ==
    IF seq = <<>> THEN <<>>
    ELSE InsertByFilename(SortedByFilename(SubSeq(seq, 1, Len(seq) - 1)), seq[Len(seq)])

\* f"{v:.6f}" on a value held in 1e-7 units and f"{v:.1f}" on a value held in
\* 0.01 units: round away the last held digit (positive values, no ties).
FormatFixed(v) == <<"num", (v + 5) \div 10>>

\* exp_str with "exp <= 1" where the code has "exp < 1".
exp_str_inclusive(img) ==
    IF "exposure_time" \notin DOMAIN img THEN <<>>
    ELSE LET exp == img.exposure_time IN
         IF exp # 0 /\ exp > 0 /\ exp <= ExpScale THEN <<"1/", ExpScale \div exp>>
         ELSE IF exp # 0 THEN <<"str", exp>>
         ELSE <<>>

\* exp_str of render_markdown; exp is None when the field is absent.
exp_str(img) ==
    IF "exposure_time" \notin DOMAIN img THEN <<>>
    ELSE LET exp == img.exposure_time IN
         IF exp # 0 /\ exp > 0 /\ exp < ExpScale THEN <<"1/", ExpScale \div exp>>
         ELSE IF exp # 0 THEN <<"str", exp>>
         ELSE <<>>

\* f"{img.get(field, '')}" with no format specification.
get_str(img, field) ==
    IF field \in DOMAIN img THEN <<"str", img[field]>> ELSE <<>>

\* The exception the row's f-string raises for img, "" if none: the fields are
\* evaluated left to right, and format(':.1f') rejects the '' that
\* img.get('altitude', '') yields for an absent altitude.
RowError(img) ==
    IF "latitude" \notin DOMAIN img \/ "longitude" \notin DOMAIN img THEN "KeyError"
    ELSE IF "altitude" \notin DOMAIN img THEN "ValueError"
    ELSE ""

RowOf(img) ==
    [filename |-> img.filename,
     latitude |-> FormatFixed(img.latitude),
     longitude |-> FormatFixed(img.longitude),
     altitude |-> FormatFixed(img.altitude),
     exposure |-> exp_str(img),
     iso |-> get_str(img, "iso_speed"),
     fnumber |-> get_str(img, "fnumber")]

\* Index of the first record whose row raises, 0 if none does.
FirstRowError(seq) ==
    IF \E k \in 1..Len(seq) : RowError(seq[k]) # ""
    THEN CHOOSE k \in 1..Len(seq) :
            /\ RowError(seq[k]) # ""
            /\ \A m \in 1..(k - 1) : RowError(seq[m]) = ""
    ELSE 0

\* ReportLines with the reconstructed count where the header wants the dropped count.
ReportLines_wrong_header(seq, n, total, reconstructed_count) ==
    [header |-> <<reconstructed_count, total>>,
     counts |-> <<reconstructed_count, Len(seq), total>>,
     rows |-> [k \in 1..n |-> RowOf(seq[k])],
     embed |-> FALSE]

\* The list "lines" after the header and the rows of seq[1..n].
ReportLines(seq, n, total, reconstructed_count) ==
    [header |-> <<Len(seq), total>>,
     counts |-> <<reconstructed_count, Len(seq), total>>,
     rows |-> [k \in 1..n |-> RowOf(seq[k])],
     embed |-> FALSE]

\* The exception a list comprehension over img["longitude"], img["latitude"] raises.
CoordError(seq) ==
    IF \E k \in 1..Len(seq) :
          "longitude" \notin DOMAIN seq[k] \/ "latitude" \notin DOMAIN seq[k]
    THEN "KeyError" ELSE ""

\* rasterio.warp.transform of one WGS84 point into the orthophoto's CRS.
transform_coords(img) == <<"crs", img.longitude, img.latitude>>

\* RawPoint with longitude and latitude swapped.
RawPoint_swapped(img) == <<"lonlat", img.latitude, img.longitude>>

RawPoint(img) == <<"lonlat", img.longitude, img.latitude>>

EmptyFig == [backdrop |-> FALSE, recon |-> <<>>, dropped |-> <<>>, arrows |-> <<>>]

----------------------------------------------------------------------------
(* Process exit *)

\* An uncaught exception: traceback on stderr, exit status 1.
Raise(exc) ==
    /\ pc' = "done"
    /\ exit_code' = 1
    /\ raised' = exc
    /\ stderr' = Append(stderr, <<"Traceback", exc>>)

\* sys.exit(1) or "return 1" after a message on stderr.
ExitWith(msg) ==
    /\ pc' = "done"
    /\ exit_code' = 1
    /\ stderr' = Append(stderr, msg)
    /\ UNCHANGED raised

----------------------------------------------------------------------------
Init ==
    /\ pc = "main"
    /\ argv_len \in {2, 3, 4}
    /\ fs_exists \in SUBSET RequiredPaths
    /\ exit_code = -1
    /\ raised = ""
    /\ stdout = <<>>
    /\ stderr = <<>>
    /\ files_read = {}
    /\ dirs_created = {}
    /\ png_written = FALSE
    /\ md_file = <<>>
    /\ shots_geojson = <<>>
    /\ all_images = <<>>
    /\ shots = EmptyDict
    /\ reconstructed = <<>>
    /\ dropped = <<>>
    /\ i = 0
    /\ ortho_path = "None"
    /\ use_ortho = FALSE
    /\ ortho_crs = "None"
    /\ fig = EmptyFig
    /\ lines = <<>>
    /\ files_written = {}
    /\ disk_images = <<>>
    /\ disk_shots = <<>>
    /\ second_run = FALSE
    /\ prev_png = FALSE
    /\ prev_md = <<>>
    /\ QuotesIdle
    /\ RecordIdle
    /\ TechSpecsIdle
    /\ ExifIdle

\* main_check_args with "len(sys.argv) < 3" where the code has "!= 3".
main_check_args_at_least ==
    /\ pc = "main"
    /\ IF argv_len < 3
       THEN ExitWith(<<"Usage">>)
       ELSE /\ pc' = "load_input_images"
            /\ UNCHANGED <<exit_code, raised, stderr>>
    /\ UNCHANGED <<files_written, disk_images, disk_shots, second_run, prev_png, prev_md>>
    /\ UNCHANGED <<argv_len, fs_exists, stdout, files_read, dirs_created, png_written, md_file,
                   shots_geojson, all_images, shots, reconstructed, dropped, i,
                   ortho_path, use_ortho, ortho_crs, fig, lines>>
    /\ UNCHANGED not_analyze

\* main: the argument count check.
main_check_args ==
    /\ pc = "main"
    /\ IF argv_len # 3
       THEN ExitWith(<<"Usage">>)
       ELSE /\ pc' = "load_input_images"
            /\ UNCHANGED <<exit_code, raised, stderr>>
    /\ UNCHANGED <<files_written, disk_images, disk_shots, second_run, prev_png, prev_md>>
    /\ UNCHANGED <<argv_len, fs_exists, stdout, files_read, dirs_created, png_written, md_file,
                   shots_geojson, all_images, shots, reconstructed, dropped, i,
                   ortho_path, use_ortho, ortho_crs, fig, lines>>
    /\ UNCHANGED not_analyze

\* load_input_images: exit if images.json is absent, else json.load it.
load_input_images ==
    /\ pc = "load_input_images"
    /\ \/ /\ "images.json" \notin fs_exists
          /\ ExitWith(<<"Not found", "images.json">>)
          /\ UNCHANGED <<files_read, all_images, disk_images>>
       \/ \E manifest \in ImageManifests :
            /\ "images.json" \in fs_exists
            /\ second_run => manifest = disk_images
            /\ all_images' = manifest
            /\ disk_images' = manifest
            /\ files_read' = files_read \cup {"images.json"}
            /\ pc' = "load_reconstructed_shots"
            /\ UNCHANGED <<exit_code, raised, stderr>>
    /\ UNCHANGED <<files_written, disk_shots, second_run, prev_png, prev_md>>
    /\ UNCHANGED <<argv_len, fs_exists, stdout, dirs_created, png_written, md_file,
                   shots_geojson, shots, reconstructed, dropped, i,
                   ortho_path, use_ortho, ortho_crs, fig, lines>>
    /\ UNCHANGED not_analyze

\* load_reconstructed_shots that treats a missing shots.geojson as an empty
\* feature collection instead of exiting.
load_reconstructed_shots_no_exit ==
    /\ pc = "load_reconstructed_shots"
    /\ \E features \in ShotManifests :
         /\ "odm_report/shots.geojson" \notin fs_exists => features = <<>>
         /\ second_run => features = disk_shots
         /\ shots_geojson' = features
         /\ disk_shots' = features
         /\ shots' = ShotsOf(features, EmptyDict)
         /\ files_read' = files_read \cup ({"odm_report/shots.geojson"} \cap fs_exists)
         /\ pc' = "partition"
         /\ UNCHANGED <<exit_code, raised, stderr>>
    /\ UNCHANGED <<files_written, disk_images, second_run, prev_png, prev_md>>
    /\ UNCHANGED <<argv_len, fs_exists, stdout, dirs_created, png_written, md_file,
                   all_images, reconstructed, dropped, i,
                   ortho_path, use_ortho, ortho_crs, fig, lines>>
    /\ UNCHANGED not_analyze

\* load_reconstructed_shots: exit if shots.geojson is absent, else build the
\* filename -> shot mapping from its features.
load_reconstructed_shots ==
    /\ pc = "load_reconstructed_shots"
    /\ \/ /\ "odm_report/shots.geojson" \notin fs_exists
          /\ ExitWith(<<"Not found", "odm_report/shots.geojson">>)
          /\ UNCHANGED <<files_read, shots_geojson, shots, disk_shots>>
       \/ \E features \in ShotManifests :
            /\ "odm_report/shots.geojson" \in fs_exists
            /\ second_run => features = disk_shots
            /\ shots_geojson' = features
            /\ disk_shots' = features
            /\ shots' = ShotsOf(features, EmptyDict)
            /\ files_read' = files_read \cup {"odm_report/shots.geojson"}
            /\ pc' = "partition"
            /\ UNCHANGED <<exit_code, raised, stderr>>
    /\ UNCHANGED <<files_written, disk_images, second_run, prev_png, prev_md>>
    /\ UNCHANGED <<argv_len, fs_exists, stdout, dirs_created, png_written, md_file,
                   all_images, reconstructed, dropped, i,
                   ortho_path, use_ortho, ortho_crs, fig, lines>>
    /\ UNCHANGED not_analyze

\* main_partition with the "else" lost: every record is appended to dropped.
main_partition_no_else ==
    /\ pc = "partition"
    /\ i < Len(all_images)
    /\ i' = i + 1
    /\ LET img == all_images[i + 1] IN
       /\ reconstructed' = IF img.filename \in DOMAIN shots
                           THEN Append(reconstructed, img) ELSE reconstructed
       /\ dropped' = Append(dropped, img)
    /\ UNCHANGED <<files_written, disk_images, disk_shots, second_run, prev_png, prev_md>>
    /\ UNCHANGED <<pc, argv_len, fs_exists, exit_code, raised, stdout, stderr, files_read,
                   dirs_created, png_written, md_file, shots_geojson, all_images,
                   shots, ortho_path, use_ortho, ortho_crs, fig, lines>>
    /\ UNCHANGED not_analyze

\* One iteration of "for img in all_images".
main_partition ==
    /\ pc = "partition"
    /\ i < Len(all_images)
    /\ i' = i + 1
    /\ LET img == all_images[i + 1] IN
       IF img.filename \in DOMAIN shots
       THEN /\ reconstructed' = Append(reconstructed, img)
            /\ UNCHANGED dropped
       ELSE /\ dropped' = Append(dropped, img)
            /\ UNCHANGED reconstructed
    /\ UNCHANGED <<files_written, disk_images, disk_shots, second_run, prev_png, prev_md>>
    /\ UNCHANGED <<pc, argv_len, fs_exists, exit_code, raised, stdout, stderr, files_read,
                   dirs_created, png_written, md_file, shots_geojson, all_images,
                   shots, ortho_path, use_ortho, ortho_crs, fig, lines>>
    /\ UNCHANGED not_analyze

\* print(f"Total: ..., Reconstructed: ..., Dropped: ...") after the loop.
main_print_summary ==
    /\ pc = "partition"
    /\ i = Len(all_images)
    /\ stdout' = Append(stdout, <<"Total", Len(all_images), Len(reconstructed), Len(dropped)>>)
    /\ pc' = "render_map"
    /\ UNCHANGED <<files_written, disk_images, disk_shots, second_run, prev_png, prev_md>>
    /\ UNCHANGED <<argv_len, fs_exists, exit_code, raised, stderr, files_read,
                   dirs_created, png_written, md_file, shots_geojson, all_images,
                   shots, reconstructed, dropped, i, ortho_path, use_ortho,
                   ortho_crs, fig, lines>>
    /\ UNCHANGED not_analyze

\* render_map, lines 76-105: find_ortho, then the try block that opens the
\* orthophoto.  The environment chooses which paths exist, whether the raster
\* has a CRS, and how far the try block gets before an exception.
render_map_load_ortho ==
    /\ pc = "render_map"
    /\ \E existing \in SUBSET Range(OrthoPaths), crs \in {"None", "EPSG:32610"},
          outcome \in {"open_raises", "read_raises", "loaded"} :
         LET path == find_ortho(existing) IN
         /\ ortho_path' = path
         /\ IF path = "None"
            THEN /\ crs = "None" /\ outcome = "loaded"
                 /\ UNCHANGED <<use_ortho, ortho_crs, fig, stdout, stderr, files_read>>
            ELSE /\ \/ /\ outcome = "open_raises" /\ crs = "None"
                       /\ UNCHANGED <<use_ortho, ortho_crs, fig, stdout, files_read>>
                       /\ stderr' = Append(stderr, <<"Warning: could not load ortho">>)
                    \/ /\ outcome = "read_raises"
                       /\ ortho_crs' = crs
                       /\ files_read' = files_read \cup {path}
                       /\ UNCHANGED <<use_ortho, fig, stdout>>
                       /\ stderr' = Append(stderr, <<"Warning: could not load ortho">>)
                    \/ /\ outcome = "loaded"
                       /\ ortho_crs' = crs
                       /\ use_ortho' = TRUE
                       /\ files_read' = files_read \cup {path}
                       /\ fig' = [fig EXCEPT !.backdrop = TRUE]
                       /\ stdout' = Append(stdout, <<"Ortho", path>>)
                       /\ UNCHANGED stderr
    /\ pc' = "render_map_plot"
    /\ UNCHANGED <<files_written, disk_images, disk_shots, second_run, prev_png, prev_md>>
    /\ UNCHANGED <<argv_len, fs_exists, exit_code, raised, dirs_created, png_written, md_file,
                   shots_geojson, all_images, shots, reconstructed, dropped, i, lines>>
    /\ UNCHANGED not_analyze

\* The points and arrows of the branch "if use_ortho and ortho_crs".
OrthoArrows ==
    [k \in 1..Len(reconstructed) |->
        LET shot == shots[reconstructed[k].filename] IN
        <<transform_coords(reconstructed[k]), <<"crs", shot.translation[1], shot.translation[2]>>>>]

OrthoReconPoints ==
    [k \in 1..Len(reconstructed) |->
        LET shot == shots[reconstructed[k].filename] IN
        <<"crs", shot.translation[1], shot.translation[2]>>]

\* render_map, lines 107-152: plot both groups.  In the orthophoto branch each
\* call of transform_coords may raise (the environment decides); nothing
\* catches it, nor the KeyError of a record without longitude or latitude.
render_map_plot ==
    /\ pc = "render_map_plot"
    /\ \E warp_raises \in {"none", "reconstructed", "dropped"} :
         LET ortho == use_ortho /\ ortho_crs # "None"
             err ==
                IF reconstructed # <<>> /\ CoordError(reconstructed) # "" THEN "KeyError"
                ELSE IF reconstructed # <<>> /\ ortho /\ warp_raises = "reconstructed"
                     THEN "TransformError"
                ELSE IF dropped # <<>> /\ CoordError(dropped) # "" THEN "KeyError"
                ELSE IF dropped # <<>> /\ ortho /\ warp_raises = "dropped"
                     THEN "TransformError"
                ELSE ""
         IN
         /\ warp_raises = "reconstructed" => (ortho /\ reconstructed # <<>>)
         /\ warp_raises = "dropped" => (ortho /\ dropped # <<>> /\ err = "TransformError")
         /\ IF err # ""
            THEN /\ Raise(err)
                 /\ UNCHANGED fig
            ELSE /\ fig' = IF ortho
                           THEN [fig EXCEPT
                                   !.arrows = OrthoArrows,
                                   !.recon = OrthoReconPoints,
                                   !.dropped = [k \in 1..Len(dropped) |->
                                                   transform_coords(dropped[k])]]
                           ELSE [fig EXCEPT
                                   !.recon = [k \in 1..Len(reconstructed) |->
                                                 RawPoint(reconstructed[k])],
                                   !.dropped = [k \in 1..Len(dropped) |->
                                                   RawPoint(dropped[k])]]
                 /\ pc' = "render_map_save"
                 /\ UNCHANGED <<exit_code, raised, stderr>>
    /\ UNCHANGED <<files_written, disk_images, disk_shots, second_run, prev_png, prev_md>>
    /\ UNCHANGED <<argv_len, fs_exists, stdout, files_read, dirs_created, png_written, md_file,
                   shots_geojson, all_images, shots, reconstructed, dropped, i,
                   ortho_path, use_ortho, ortho_crs, lines>>
    /\ UNCHANGED not_analyze

\* render_map_save that leaves a reconstruction_status.png that already exists.
render_map_save_keep_existing ==
    /\ pc = "render_map_save"
    /\ dirs_created' = dirs_created \cup {"output_dir"}
    /\ \E ok \in BOOLEAN :
         IF ok
         THEN /\ png_written' = ~prev_png
              /\ files_written' = IF prev_png THEN files_written
                                   ELSE files_written \cup {"reconstruction_status.png"}
              /\ stdout' = Append(stdout, <<"Map", "reconstruction_status.png">>)
              /\ pc' = "render_markdown"
              /\ UNCHANGED <<exit_code, raised, stderr>>
         ELSE /\ Raise("OSError")
              /\ UNCHANGED <<png_written, files_written, stdout>>
    /\ UNCHANGED <<disk_images, disk_shots, second_run, prev_png, prev_md>>
    /\ UNCHANGED <<argv_len, fs_exists, files_read, md_file, shots_geojson, all_images, shots,
                   reconstructed, dropped, i, ortho_path, use_ortho, ortho_crs,
                   fig, lines>>
    /\ UNCHANGED not_analyze

\* render_map, lines 154-164: mkdir, savefig, print.  savefig may fail with
\* an OSError (the environment decides).
render_map_save ==
    /\ pc = "render_map_save"
    /\ dirs_created' = dirs_created \cup {"output_dir"}
    /\ \E ok \in BOOLEAN :
         IF ok
         THEN /\ png_written' = TRUE
              /\ files_written' = files_written \cup {"reconstruction_status.png"}
              /\ stdout' = Append(stdout, <<"Map", "reconstruction_status.png">>)
              /\ pc' = "render_markdown"
              /\ UNCHANGED <<exit_code, raised, stderr>>
         ELSE /\ Raise("OSError")
              /\ UNCHANGED <<png_written, files_written, stdout>>
    /\ UNCHANGED <<disk_images, disk_shots, second_run, prev_png, prev_md>>
    /\ UNCHANGED <<argv_len, fs_exists, files_read, md_file, shots_geojson, all_images, shots,
                   reconstructed, dropped, i, ortho_path, use_ortho, ortho_crs,
                   fig, lines>>
    /\ UNCHANGED not_analyze

\* render_markdown, lines 168-190: the header, one row per dropped image in
\* sorted order, the embed.  A row whose f-string raises ends the run.
render_markdown_build ==
    /\ pc = "render_markdown"
    /\ LET sortedDropped == SortedByFilename(dropped)
           bad == FirstRowError(sortedDropped)
           total == Len(all_images)
           reconstructed_count == Len(reconstructed)
       IN
       IF bad # 0
       THEN /\ lines' = ReportLines(sortedDropped, bad - 1, total, reconstructed_count)
            /\ Raise(RowError(sortedDropped[bad]))
       ELSE /\ lines' = [ReportLines(sortedDropped, Len(sortedDropped), total,
                                     reconstructed_count) EXCEPT !.embed = TRUE]
            /\ pc' = "render_markdown_write"
            /\ UNCHANGED <<exit_code, raised, stderr>>
    /\ UNCHANGED <<files_written, disk_images, disk_shots, second_run, prev_png, prev_md>>
    /\ UNCHANGED <<argv_len, fs_exists, stdout, files_read, dirs_created, png_written, md_file,
                   shots_geojson, all_images, shots, reconstructed, dropped, i,
                   ortho_path, use_ortho, ortho_crs, fig>>
    /\ UNCHANGED not_analyze

\* render_markdown_write that opens dropped-images.md for appending.
render_markdown_write_append ==
    /\ pc = "render_markdown_write"
    /\ dirs_created' = dirs_created \cup {"output_dir"}
    /\ \E ok \in BOOLEAN :
         IF ok
         THEN /\ md_file' = IF prev_md = <<>> THEN <<lines>> ELSE <<prev_md[1], lines>>
              /\ files_written' = files_written \cup {"dropped-images.md"}
              /\ stdout' = Append(stdout, <<"Markdown", "dropped-images.md">>)
              /\ pc' = "return"
              /\ UNCHANGED <<exit_code, raised, stderr>>
         ELSE /\ Raise("OSError")
              /\ UNCHANGED <<md_file, files_written, stdout>>
    /\ UNCHANGED <<disk_images, disk_shots, second_run, prev_png, prev_md>>
    /\ UNCHANGED <<argv_len, fs_exists, files_read, png_written, shots_geojson, all_images, shots,
                   reconstructed, dropped, i, ortho_path, use_ortho, ortho_crs,
                   fig, lines>>
    /\ UNCHANGED not_analyze

\* render_markdown_write with the report path built from odm_dir / "images.json".
render_markdown_write_over_manifest ==
    /\ pc = "render_markdown_write"
    /\ dirs_created' = dirs_created \cup {"output_dir"}
    /\ \E ok \in BOOLEAN :
         IF ok
         THEN /\ md_file' = <<lines>>
              /\ files_written' = files_written \cup {"images.json"}
              /\ stdout' = Append(stdout, <<"Markdown", "dropped-images.md">>)
              /\ pc' = "return"
              /\ UNCHANGED <<exit_code, raised, stderr>>
         ELSE /\ Raise("OSError")
              /\ UNCHANGED <<md_file, files_written, stdout>>
    /\ UNCHANGED <<disk_images, disk_shots, second_run, prev_png, prev_md>>
    /\ UNCHANGED <<argv_len, fs_exists, files_read, png_written, shots_geojson, all_images, shots,
                   reconstructed, dropped, i, ortho_path, use_ortho, ortho_crs,
                   fig, lines>>
    /\ UNCHANGED not_analyze

\* render_markdown, lines 192-194: mkdir, write_text, print.  write_text may
\* fail with an OSError (the environment decides).
render_markdown_write ==
    /\ pc = "render_markdown_write"
    /\ dirs_created' = dirs_created \cup {"output_dir"}
    /\ \E ok \in BOOLEAN :
         IF ok
         THEN /\ md_file' = <<lines>>
              /\ files_written' = files_written \cup {"dropped-images.md"}
              /\ stdout' = Append(stdout, <<"Markdown", "dropped-images.md">>)
              /\ pc' = "return"
              /\ UNCHANGED <<exit_code, raised, stderr>>
         ELSE /\ Raise("OSError")
              /\ UNCHANGED <<md_file, files_written, stdout>>
    /\ UNCHANGED <<disk_images, disk_shots, second_run, prev_png, prev_md>>
    /\ UNCHANGED <<argv_len, fs_exists, files_read, png_written, shots_geojson, all_images, shots,
                   reconstructed, dropped, i, ortho_path, use_ortho, ortho_crs,
                   fig, lines>>
    /\ UNCHANGED not_analyze

\* main: return 0.
main_return ==
    /\ pc = "return"
    /\ pc' = "done"
    /\ exit_code' = 0
    /\ UNCHANGED <<files_written, disk_images, disk_shots, second_run, prev_png, prev_md>>
    /\ UNCHANGED <<argv_len, fs_exists, raised, stdout, stderr, files_read, dirs_created,
                   png_written, md_file, shots_geojson, all_images, shots,
                   reconstructed, dropped, i, ortho_path, use_ortho, ortho_crs,
                   fig, lines>>
    /\ UNCHANGED not_analyze

Next ==
    \/ main_check_args
    \/ load_input_images
    \/ load_reconstructed_shots
    \/ main_partition
    \/ main_print_summary
    \/ render_map_load_ortho
    \/ render_map_plot
    \/ render_map_save
    \/ render_markdown_build
    \/ render_markdown_write
    \/ main_return

Spec == Init /\ [][Next]_vars

\* The script is started again on the same odm_dir and output_dir after a run
\* that returned 0: a new process, the same manifests, the output directory
\* and the two files the earlier run wrote into it still there.
rerun ==
    /\ pc = "done"
    /\ exit_code = 0
    /\ ~second_run
    /\ second_run' = TRUE
    /\ prev_png' = png_written
    /\ prev_md' = md_file
    /\ pc' = "main"
    /\ exit_code' = -1
    /\ raised' = ""
    /\ stdout' = <<>>
    /\ stderr' = <<>>
    /\ files_read' = {}
    /\ files_written' = {}
    /\ png_written' = FALSE
    /\ md_file' = <<>>
    /\ shots_geojson' = <<>>
    /\ all_images' = <<>>
    /\ shots' = EmptyDict
    /\ reconstructed' = <<>>
    /\ dropped' = <<>>
    /\ i' = 0
    /\ ortho_path' = "None"
    /\ use_ortho' = FALSE
    /\ ortho_crs' = "None"
    /\ fig' = EmptyFig
    /\ lines' = <<>>
    /\ UNCHANGED <<argv_len, fs_exists, dirs_created, disk_images, disk_shots>>
    /\ UNCHANGED not_analyze

NextRerun == Next \/ rerun

SpecRerun == Init /\ [][NextRerun]_vars

----------------------------------------------------------------------------
(* Vocabulary of the properties *)

InShots(img) == img.filename \in DOMAIN shots
NotInShots(img) == img.filename \notin DOMAIN shots

\* The loop over all_images has finished.
Partitioned ==
    \/ pc \in {"render_map", "render_map_plot", "render_map_save", "render_markdown",
               "render_markdown_write", "return"}
    \/ pc = "done" /\ stdout # <<>>

\* The filenames of the two manifests as loaded.
ShotFilenames == {shots_geojson[k].filename : k \in 1..Len(shots_geojson)}
ImageFilenames == {all_images[k].filename : k \in 1..Len(all_images)}
DistinctImageFilenames == Cardinality(ImageFilenames) = Len(all_images)

\* The run ended with both artifacts written.
BothWritten == pc = "done" /\ png_written /\ md_file # <<>>

\* How many records of seq carry filename f.
CountOf(seq, f) == Cardinality({k \in 1..Len(seq) : seq[k].filename = f})

\* a <= b in lexicographic order of character codes.
LexLeq(a, b) ==
    \/ Len(a) <= Len(b) /\ \A k \in 1..Len(a) : a[k] = b[k]
    \/ \E j \in 1..Len(a) :
          /\ j <= Len(b)
          /\ \A k \in 1..(j - 1) : a[k] = b[k]
          /\ a[j] < b[j]

----------------------------------------------------------------------------
\* C1: at every point of the loop over all_images, 'reconstructed' holds
\* exactly the records read so far whose filename is a key of the shot
\* mapping and 'dropped' exactly the others, each in manifest order; the two
\* lists share no record and together hold every record read so far.
C1_Partition ==
    LET seen == SubSeq(all_images, 1, i) IN
    /\ i \in 0..Len(all_images)
    /\ Partitioned => i = Len(all_images)
    /\ reconstructed = SelectSeq(seen, InShots)
    /\ dropped = SelectSeq(seen, NotInShots)
    /\ Range(reconstructed) \cap Range(dropped) = {}
    /\ Range(reconstructed) \cup Range(dropped) = Range(seen)
    /\ Len(reconstructed) + Len(dropped) = i

\* A finished loop that filled both lists.
C1_Witness ==
    /\ Partitioned
    /\ reconstructed # <<>>
    /\ dropped # <<>>

----------------------------------------------------------------------------
\* C2 as stated: for any input manifest of N records and any reconstruction
\* manifest whose K distinct filenames all occur in the input manifest,
\* reconstructed + dropped = N and reconstructed = K.
C2_CountsAnyManifest ==
    (Partitioned /\ ShotFilenames \subseteq ImageFilenames) =>
        /\ Len(reconstructed) + Len(dropped) = Len(all_images)
        /\ Len(reconstructed) = Cardinality(ShotFilenames)

\* C2 amended: when the filenames of the input manifest are pairwise
\* distinct and the K distinct filenames of the reconstruction manifest all
\* occur in it, reconstructed = K; for every manifest reconstructed + dropped
\* = N; and these counts are the ones printed in the summary line and the
\* ones in the header of the Markdown report.
C2_Counts ==
    Partitioned =>
        /\ Len(reconstructed) + Len(dropped) = Len(all_images)
        /\ (DistinctImageFilenames /\ ShotFilenames \subseteq ImageFilenames) =>
               Len(reconstructed) = Cardinality(ShotFilenames)
        /\ stdout[1] = <<"Total", Len(all_images), Len(reconstructed), Len(dropped)>>
        /\ lines # <<>> =>
               /\ lines.counts = <<Len(reconstructed), Len(dropped), Len(all_images)>>
               /\ lines.header = <<Len(dropped), Len(all_images)>>

\* A report written for two distinct inputs of which one was reconstructed,
\* from a reconstruction manifest that names it twice.
C2_Witness ==
    /\ BothWritten
    /\ DistinctImageFilenames
    /\ ShotFilenames \subseteq ImageFilenames
    /\ Len(all_images) = 2
    /\ Len(shots_geojson) = 2
    /\ Cardinality(ShotFilenames) = 1

----------------------------------------------------------------------------
\* C3: reconstruction_status.png and dropped-images.md are written
\* all-or-nothing: no run ends with one of them written and the other not.
C3_AllOrNothing ==
    pc = "done" => (png_written <=> md_file # <<>>)

----------------------------------------------------------------------------
\* C4: an error while loading the orthophoto or while reprojecting points
\* into its CRS is caught and reported as a warning; it never ends the run.
C4_BackdropErrorsCaught ==
    raised # "TransformError"

----------------------------------------------------------------------------
\* C5: if images.json or odm_report/shots.geojson does not exist, the run
\* never reaches render_map and ends with exit code 1 and exactly one message
\* on stderr, 'Not found' naming the missing path (images.json when both are
\* missing); nothing is drawn, no directory is created and neither output
\* file is written.
C5_MissingManifestExits ==
    (argv_len = 3 /\ fs_exists # RequiredPaths) =>
      /\ pc \in {"main", "load_input_images", "load_reconstructed_shots", "done"}
      /\ pc = "done" =>
        /\ exit_code = 1
        /\ raised = ""
        /\ stderr = <<IF "images.json" \notin fs_exists
                      THEN <<"Not found", "images.json">>
                      ELSE <<"Not found", "odm_report/shots.geojson">>>>
        /\ stdout = <<>>
        /\ fig = EmptyFig
        /\ lines = <<>>
        /\ dirs_created = {}
        /\ ~png_written
        /\ md_file = <<>>

\* A run that read images.json and then found shots.geojson missing.
C5_Witness ==
    /\ pc = "done"
    /\ argv_len = 3
    /\ fs_exists = {"images.json"}
    /\ files_read = {"images.json"}
    /\ all_images # <<>>

----------------------------------------------------------------------------
\* C6: a run that writes both artifacts exits with code 0; a run with an
\* argument count other than two, or with a required manifest missing, exits
\* with code 1; with a wrong argument count nothing is read or written.
C6_ExitCodes ==
    /\ BothWritten => exit_code = 0 /\ raised = ""
    /\ (pc = "done" /\ (argv_len # 3 \/ fs_exists # RequiredPaths)) => exit_code = 1
    /\ argv_len # 3 =>
          /\ pc \in {"main", "done"}
          /\ files_read = {}
          /\ dirs_created = {}
          /\ ~png_written
          /\ md_file = <<>>
          /\ stdout = <<>>
          /\ pc = "done" => stderr = <<<<"Usage">>>>
    /\ pc = "done" <=> exit_code # -1

\* Both kinds of run have ended: here, one that wrote both artifacts.
C6_Witness ==
    /\ BothWritten
    /\ exit_code = 0
    /\ argv_len = 3

----------------------------------------------------------------------------
\* C7: every dropped image gets a table row whose altitude cell is the
\* altitude to one decimal place, or blank when the record has no altitude;
\* a dropped record without altitude does not stop the report from being
\* written.
C7_BlankAltitude ==
    (pc = "done" /\ png_written /\ raised # "OSError") =>
        /\ md_file # <<>>
        /\ LET sortedDropped == SortedByFilename(dropped)
               rows == md_file[1].rows
           IN
           /\ Len(rows) = Len(dropped)
           /\ \A k \in 1..Len(rows) :
                 rows[k].altitude =
                    IF "altitude" \in DOMAIN sortedDropped[k]
                    THEN FormatFixed(sortedDropped[k].altitude)
                    ELSE <<>>

----------------------------------------------------------------------------
\* C8: in every row built for the report, the exposure cell is '1/' and the
\* truncated integer reciprocal when exposure_time is strictly between 0 and
\* 1 second (0.005 gives 1/200), blank when it is 0 or missing, and str() of
\* the value when it is 1 second or more (2.0 gives '2.0').
C8_ExposureCell ==
    lines # <<>> =>
        LET sortedDropped == SortedByFilename(dropped) IN
        \A k \in 1..Len(lines.rows) :
            LET img == sortedDropped[k]
                cell == lines.rows[k].exposure
            IN
            /\ "exposure_time" \notin DOMAIN img => cell = <<>>
            /\ "exposure_time" \in DOMAIN img =>
                  LET exp == img.exposure_time IN
                  /\ exp = 0 => cell = <<>>
                  /\ (0 < exp /\ exp < ExpScale) =>
                        /\ Len(cell) = 2
                        /\ cell[1] = "1/"
                        /\ cell[2] * exp <= ExpScale
                        /\ ExpScale < (cell[2] + 1) * exp
                  /\ exp >= ExpScale => cell = <<"str", exp>>
                  /\ exp = 5 => cell = <<"1/", 200>>
                  /\ exp = 2 * ExpScale => cell = <<"str", 2 * ExpScale>>

\* A written report with a row for an exposure of 0.005 s (or of 0.6 s, whose
\* reciprocal is not an integer) and a row for an exposure of 1 s or more.
C8_Witness ==
    /\ md_file # <<>>
    /\ \E k \in 1..Len(dropped) :
          /\ "exposure_time" \in DOMAIN dropped[k]
          /\ dropped[k].exposure_time \in {5, 600}
    /\ \E k \in 1..Len(dropped) :
          /\ "exposure_time" \in DOMAIN dropped[k]
          /\ dropped[k].exposure_time >= ExpScale

----------------------------------------------------------------------------
\* C9: the rows of the written drop table are in ascending lexicographic
\* order of filename, whatever the order of the dropped records in the
\* input manifest.
C9_RowsSorted ==
    md_file # <<>> =>
        LET rows == md_file[1].rows IN
        \A k \in 1..Len(rows), m \in 1..Len(rows) :
            k < m => LexLeq(rows[k].filename, rows[m].filename)

\* A written report whose dropped records came in descending filename order.
C9_Witness ==
    /\ md_file # <<>>
    /\ Len(dropped) >= 2
    /\ dropped[1].filename # dropped[2].filename
    /\ LexLeq(dropped[2].filename, dropped[1].filename)

----------------------------------------------------------------------------
\* C10: the header of the written report reads 'Dropped images (D of N)'
\* with D the number of input records whose filename is not in the shot
\* mapping and N the number of input records; the table has one row per
\* dropped record and no row for a reconstructed record.
C10_HeaderAndRows ==
    md_file # <<>> =>
        LET report == md_file[1]
            droppedIdx == {k \in 1..Len(all_images) :
                              all_images[k].filename \notin DOMAIN shots}
        IN
        /\ report.header = <<Cardinality(droppedIdx), Len(all_images)>>
        /\ report.embed
        /\ Len(report.rows) = Cardinality(droppedIdx)
        /\ \A k \in 1..Len(report.rows) : report.rows[k].filename \notin DOMAIN shots
        /\ \A k \in droppedIdx :
              CountOf(report.rows, all_images[k].filename)
                 = Cardinality({m \in droppedIdx :
                                   all_images[m].filename = all_images[k].filename})

\* A written report for a manifest with one reconstructed and one dropped record.
C10_Witness ==
    /\ md_file # <<>>
    /\ Len(all_images) = 2
    /\ Len(reconstructed) = 1
    /\ Len(md_file[1].rows) = 1

----------------------------------------------------------------------------
(* Vocabulary of the properties, continued *)

HasCoords(img) == "latitude" \in DOMAIN img /\ "longitude" \in DOMAIN img

AllHaveCoords == \A k \in 1..Len(all_images) : HasCoords(all_images[k])

\* render_map has got past find_ortho and the orthophoto try block.
OrthoStepDone ==
    \/ pc \in {"render_map_plot", "render_map_save", "render_markdown",
               "render_markdown_write", "return"}
    \/ pc = "done" /\ stdout # <<>>

\* render_map has got past the plotting of both groups.
PlotStepDone ==
    \/ pc \in {"render_map_save", "render_markdown", "render_markdown_write", "return"}
    \/ pc = "done" /\ stdout # <<>> /\ raised \notin {"KeyError", "TransformError"}

OutputFiles == {"reconstruction_status.png", "dropped-images.md"}

SourceFiles == RequiredPaths \cup Range(OrthoPaths)

----------------------------------------------------------------------------
\* C11: a second run on the same manifests writes a dropped-images.md equal
\* to the one the first run wrote, whatever the orthophoto does in either
\* run: the report depends on the two manifests only, and the second run
\* overwrites the existing file with the same content.
C11_SameMarkdown ==
    (second_run /\ md_file # <<>>) =>
        /\ prev_md # <<>>
        /\ md_file = prev_md

\* A second run that used an orthophoto and wrote a report with a row.
C11_Witness ==
    /\ second_run
    /\ md_file # <<>>
    /\ dropped # <<>>
    /\ use_ortho

----------------------------------------------------------------------------
\* C12 as stated: when no orthophoto exists at either path, render_map's
\* plotting completes without raising.
C12_NoOrthoNeverRaises ==
    (OrthoStepDone /\ ortho_path = "None") =>
        raised \notin {"KeyError", "TransformError"}

\* C12 amended: when no orthophoto exists at either path, render_map loads
\* no backdrop, warns of nothing, calls no reprojection and draws no arrow;
\* and when every record has latitude and longitude its plotting raises
\* nothing and the points drawn are the raw longitude/latitude of the
\* reconstructed and of the dropped records.
C12_NoOrthoFallback ==
    (OrthoStepDone /\ ortho_path = "None") =>
        /\ ~use_ortho
        /\ ortho_crs = "None"
        /\ ~fig.backdrop
        /\ fig.arrows = <<>>
        /\ \A k \in 1..Len(stderr) : stderr[k][1] # "Warning: could not load ortho"
        /\ raised # "TransformError"
        /\ AllHaveCoords =>
              /\ raised # "KeyError"
              /\ PlotStepDone =>
                    /\ fig.recon = [k \in 1..Len(reconstructed) |->
                          <<"lonlat", reconstructed[k].longitude, reconstructed[k].latitude>>]
                    /\ fig.dropped = [k \in 1..Len(dropped) |->
                          <<"lonlat", dropped[k].longitude, dropped[k].latitude>>]

\* The figure is ready to be saved, without orthophoto, with points of both groups.
C12_Witness ==
    /\ pc = "render_map_save"
    /\ ortho_path = "None"
    /\ reconstructed # <<>>
    /\ dropped # <<>>

----------------------------------------------------------------------------
\* C13: a run that returns 0 has the output directory in place and has
\* written both reconstruction_status.png and dropped-images.md, whether or
\* not an earlier run had left files of those names; and no file is written
\* before the summary line with the three counts is on standard output.
C13_SuccessfulRun ==
    /\ exit_code = 0 =>
          /\ "output_dir" \in dirs_created
          /\ files_written = OutputFiles
          /\ png_written
          /\ md_file = <<lines>>
    /\ files_written # {} =>
          /\ "output_dir" \in dirs_created
          /\ stdout # <<>>
          /\ stdout[1] = <<"Total", Len(all_images), Len(reconstructed), Len(dropped)>>

\* A second run has returned 0 over the two files the first run left.
C13_Witness ==
    /\ second_run
    /\ prev_png
    /\ prev_md # <<>>
    /\ exit_code = 0
    /\ files_written = OutputFiles

----------------------------------------------------------------------------
\* C14: a run writes no file other than reconstruction_status.png and
\* dropped-images.md; images.json, odm_report/shots.geojson and the
\* orthophoto are read and never written.
C14_SourcesOnlyRead ==
    /\ files_written \subseteq OutputFiles
    /\ files_written \cap SourceFiles = {}
    /\ files_read \subseteq SourceFiles
    /\ png_written <=> "reconstruction_status.png" \in files_written
    /\ md_file # <<>> <=> "dropped-images.md" \in files_written

\* A run that read all three sources and wrote both artifacts.
C14_Witness ==
    /\ pc = "done"
    /\ RequiredPaths \subseteq files_read
    /\ files_read \cap Range(OrthoPaths) # {}
    /\ files_written = OutputFiles

----------------------------------------------------------------------------
\* C15: if a record of the input manifest lacks latitude or longitude, the
\* run ends with the KeyError of the field access inside render_map, before
\* either artifact is written.
C15_MalformedRecordRaises ==
    (pc = "done" /\ stdout # <<>> /\ ~AllHaveCoords) =>
        /\ raised = "KeyError"
        /\ files_written = {}

----------------------------------------------------------------------------
(* facts/normalize_ascii_quotes.py                                          *)
(*                                                                          *)
(* A file or directory name is a sequence of atoms: runs of characters that *)
(* no test of the code splits.  A path is a sequence of names, relative to  *)
(* root; rel is the path joined with "/".  The content of a file is the     *)
(* sequence of its characters; "0xFF" stands for bytes that are not UTF-8.  *)

\* The atoms that start with a dot.
DotAtoms == {".git", ".obsidian", ".md", ".PNG", ".TXT"}

n_a_md == <<"a", ".md">>
n_img_PNG == <<"img", ".PNG">>
n_obsidian_notes_md == <<".obsidian", "-notes", ".md">>
n_git == <<".git">>
n_config == <<"config">>
n_sub == <<"sub">>
n_b_TXT == <<"b", ".TXT">>
n_obsidian == <<".obsidian">>
n_node_modules == <<"node_modules">>
n_c_md == <<"c", ".md">>

\* The directories under root (root is <<>>) and the files in them.
TreeDirs == {<<>>, <<n_git>>, <<n_sub>>, <<n_sub, n_obsidian>>, <<n_sub, n_node_modules>>}

TreeFiles == {<<n_a_md>>, <<n_img_PNG>>, <<n_obsidian_notes_md>>, <<n_git, n_config>>,
              <<n_sub, n_b_TXT>>, <<n_sub, n_obsidian, n_c_md>>,
              <<n_sub, n_node_modules, n_c_md>>}

FileTexts == {
    <<"x">>,
    <<"U+201C", "x", "U+201D">>,
    <<"U+2018", "0x22", "x", "0x27", "U+2019">>,
    <<"x", "CR", "LF", "U+201D">>,
    <<"x", "CR", "LF">>,
    <<"U+201C", "0xFF">> }

\* The three files of root and sub take any text, the others one of two.
TextsOf(path) ==
    IF path \in {<<n_a_md>>, <<n_obsidian_notes_md>>, <<n_sub, n_b_TXT>>}
    THEN FileTexts
    ELSE {<<"x">>, <<"U+201C", "x", "U+201D">>}

Disks == {d \in [TreeFiles -> FileTexts] : \A path \in TreeFiles : d[path] \in TextsOf(path)}

SKIP_DIRS == {<<".git">>, <<".obsidian">>, <<"node_modules">>}

SKIP_EXTENSIONS == {
    <<".png">>, <<".jpg">>, <<".jpeg">>, <<".gif">>, <<".webp">>, <<".ico">>, <<".svg">>,
    <<".pdf">>,
    <<".zip">>, <<".tar">>, <<".gz">>, <<".tgz">>, <<".bz2">>, <<".xz">>, <<".7z">>, <<".rar">>,
    <<".tif">>, <<".tiff">>, <<".geotiff">>,
    <<".mp3">>, <<".mp4">>, <<".webm">>, <<".wav">>, <<".ogg">>, <<".m4a">>,
    <<".exe">>, <<".dll">>, <<".so">>, <<".dylib">>,
    <<".pyc">>, <<".pyo">> }

\* The subdirectories and the files os.walk lists for dirpath.
ListDirs(dirpath) ==
    {d[Len(d)] : d \in {t \in TreeDirs : Len(t) = Len(dirpath) + 1
                                          /\ SubSeq(t, 1, Len(dirpath)) = dirpath}}

ListFiles(dirpath) ==
    {f[Len(f)] : f \in {t \in TreeFiles : Len(t) = Len(dirpath) + 1
                                           /\ SubSeq(t, 1, Len(dirpath)) = dirpath}}

\* The orders in which a set of names can come out of a directory listing.
Orders(S) == {o \in [1..Cardinality(S) -> S] : \A a, b \in DOMAIN o : o[a] = o[b] => a = b}

\* os.path.relpath(path, root)
RECURSIVE relpath(_)
relpath(path) ==
    IF Len(path) = 1 THEN path[1] ELSE path[1] \o <<"/">> \o relpath(Tail(path))

\* str.startswith
startswith(str, prefix) ==
    Len(str) >= Len(prefix) /\ SubSeq(str, 1, Len(prefix)) = prefix

\* os.path.splitext(f)[1]: from the last dot on, a leading dot not counting.
splitext_ext(f) ==
    LET dots == {k \in 2..Len(f) : f[k] \in DotAtoms}
    IN IF dots = {} THEN <<>>
       ELSE SubSeq(f, CHOOSE k \in dots : \A j \in dots : j <= k, Len(f))

\* str.lower
lower(str) ==
    [k \in 1..Len(str) |-> CASE str[k] = ".PNG" -> ".png"
                             [] str[k] = ".TXT" -> ".txt"
                             [] OTHER -> str[k]]

\* Decoding with encoding="utf-8", errors="strict" succeeds.
decodes(bytes) == \A k \in 1..Len(bytes) : bytes[k] # "0xFF"

\* Reading in text mode with the default newline=None: "\r\n" and "\r" become "\n".
RECURSIVE universal_newlines(_)
universal_newlines(c) ==
    IF c = <<>> THEN <<>>
    ELSE IF c[1] = "CR"
         THEN <<"LF">> \o universal_newlines(IF Len(c) >= 2 /\ c[2] = "LF"
                                             THEN SubSeq(c, 3, Len(c))
                                             ELSE Tail(c))
         ELSE <<c[1]>> \o universal_newlines(Tail(c))

\* str.replace for one character.
replace(c, old, new) == [k \in 1..Len(c) |-> IF c[k] = old THEN new ELSE c[k]]

\* Lines 52-57.
replace_quotes(c) ==
    replace(replace(replace(replace(c, "U+201C", "0x22"), "U+201D", "0x22"),
                    "U+2018", "0x27"), "U+2019", "0x27")

\* The relative paths of TreeFiles in the order of Python's sorted().
SortedRels ==
    <<relpath(<<n_git, n_config>>), relpath(<<n_obsidian_notes_md>>), relpath(<<n_a_md>>),
      relpath(<<n_img_PNG>>), relpath(<<n_sub, n_obsidian, n_c_md>>),
      relpath(<<n_sub, n_b_TXT>>), relpath(<<n_sub, n_node_modules, n_c_md>>)>>

\* sorted(changed); a file is taken once, so changed has no duplicates.
sorted_changed(list) == SelectSeq(SortedRels, LAMBDA r : r \in Range(list))

InitQuotes ==
    /\ AnalyzeIdle
    /\ RecordIdle
    /\ TechSpecsIdle
    /\ nq_pc = "main"
    /\ nq_argv_len \in {1, 2, 3}
    /\ nq_isdir \in BOOLEAN
    /\ nq_disk \in Disks
    /\ nq_orig = nq_disk
    /\ nq_stack = <<>>
    /\ nq_dirpath = <<>>
    /\ nq_files = {}
    /\ changed = <<>>
    /\ nq_written = {}
    /\ nq_stdout = <<>>
    /\ nq_stderr = <<>>
    /\ nq_exit = -1
    /\ nq_first_stdout = <<>>
    /\ ExifIdle

\* main, lines 30-37: the two checks, then os.walk starts at root.
nq_main_check_args ==
    /\ nq_pc = "main"
    /\ IF nq_argv_len # 2
       THEN /\ nq_stderr' = Append(nq_stderr, <<"Usage: normalize_ascii_quotes.py <path_to_repo>">>)
            /\ nq_exit' = 1
            /\ nq_pc' = "done"
            /\ UNCHANGED nq_stack
       ELSE IF ~nq_isdir
       THEN /\ nq_stderr' = Append(nq_stderr, <<"Not a directory:", "root">>)
            /\ nq_exit' = 1
            /\ nq_pc' = "done"
            /\ UNCHANGED nq_stack
       ELSE /\ nq_stack' = << <<>> >>
            /\ nq_pc' = "walk"
            /\ UNCHANGED <<nq_stderr, nq_exit>>
    /\ UNCHANGED <<nq_argv_len, nq_isdir, nq_disk, nq_orig, nq_dirpath, nq_files,
                   changed, nq_written, nq_stdout>>
    /\ UNCHANGED <<nq_first_stdout, not_quotes>>

\* nq_main_walk that prunes the directories of root only.
nq_main_walk_top_only ==
    /\ nq_pc = "walk"
    /\ nq_stack # <<>>
    /\ LET dirpath == Head(nq_stack)
           dirs == IF dirpath = <<>>
                   THEN {d \in ListDirs(dirpath) : d \notin SKIP_DIRS}
                   ELSE ListDirs(dirpath)
           files == ListFiles(dirpath)
       IN /\ \E o \in Orders(dirs) :
                nq_stack' = [k \in 1..Len(o) |-> Append(dirpath, o[k])] \o Tail(nq_stack)
          /\ nq_dirpath' = dirpath
          /\ nq_files' = files
          /\ nq_pc' = IF files = {} THEN "walk" ELSE "files"
    /\ UNCHANGED <<nq_argv_len, nq_isdir, nq_disk, nq_orig, changed, nq_written,
                   nq_stdout, nq_stderr, nq_exit>>
    /\ UNCHANGED <<nq_first_stdout, not_quotes>>

\* main, lines 38-39: os.walk yields the next directory; the directories
\* left in dirs are walked next, before the siblings of dirpath.
nq_main_walk ==
    /\ nq_pc = "walk"
    /\ nq_stack # <<>>
    /\ LET dirpath == Head(nq_stack)
           dirs == {d \in ListDirs(dirpath) : d \notin SKIP_DIRS}
           files == ListFiles(dirpath)
       IN /\ \E o \in Orders(dirs) :
                nq_stack' = [k \in 1..Len(o) |-> Append(dirpath, o[k])] \o Tail(nq_stack)
          /\ nq_dirpath' = dirpath
          /\ nq_files' = files
          /\ nq_pc' = IF files = {} THEN "walk" ELSE "files"
    /\ UNCHANGED <<nq_argv_len, nq_isdir, nq_disk, nq_orig, changed, nq_written,
                   nq_stdout, nq_stderr, nq_exit>>
    /\ UNCHANGED <<nq_first_stdout, not_quotes>>

\* nq_main_file without the test "if c2 != c": every file read is written back.
nq_main_file_always_writes ==
    /\ nq_pc = "files"
    /\ \E f \in nq_files :
         LET path == Append(nq_dirpath, f)
             rel == relpath(path)
             c == universal_newlines(nq_disk[path])
             c2 == replace_quotes(c)
         IN /\ IF \/ startswith(rel, <<".obsidian">>)
                  \/ lower(splitext_ext(f)) \in SKIP_EXTENSIONS
                  \/ ~decodes(nq_disk[path])
               THEN UNCHANGED <<nq_disk, changed, nq_written>>
               ELSE /\ nq_disk' = [nq_disk EXCEPT ![path] = c2]
                    /\ changed' = Append(changed, rel)
                    /\ nq_written' = nq_written \cup {path}
            /\ nq_files' = nq_files \ {f}
            /\ nq_pc' = IF nq_files \ {f} = {} THEN "walk" ELSE "files"
    /\ UNCHANGED <<nq_argv_len, nq_isdir, nq_orig, nq_stack, nq_dirpath,
                   nq_stdout, nq_stderr, nq_exit>>
    /\ UNCHANGED <<nq_first_stdout, not_quotes>>

\* main, lines 40-61: the body of "for f in files" for one file.
nq_main_file ==
    /\ nq_pc = "files"
    /\ \E f \in nq_files :
         LET path == Append(nq_dirpath, f)
             rel == relpath(path)
             c == universal_newlines(nq_disk[path])
             c2 == replace_quotes(c)
         IN /\ IF \/ startswith(rel, <<".obsidian">>)
                  \/ lower(splitext_ext(f)) \in SKIP_EXTENSIONS
                  \/ ~decodes(nq_disk[path])
                  \/ c2 = c
               THEN UNCHANGED <<nq_disk, changed, nq_written>>
               ELSE /\ nq_disk' = [nq_disk EXCEPT ![path] = c2]
                    /\ changed' = Append(changed, rel)
                    /\ nq_written' = nq_written \cup {path}
            /\ nq_files' = nq_files \ {f}
            /\ nq_pc' = IF nq_files \ {f} = {} THEN "walk" ELSE "files"
    /\ UNCHANGED <<nq_argv_len, nq_isdir, nq_orig, nq_stack, nq_dirpath,
                   nq_stdout, nq_stderr, nq_exit>>
    /\ UNCHANGED <<nq_first_stdout, not_quotes>>

\* main, lines 62-65, and sys.exit(main()).
nq_main_report ==
    /\ nq_pc = "walk"
    /\ nq_stack = <<>>
    /\ nq_stdout' = nq_stdout
                    \o << <<"Replaced curly quotes in:", Len(changed), "files">> >>
                    \o [k \in 1..Len(changed) |-> <<" ", sorted_changed(changed)[k]>>]
    /\ nq_exit' = 0
    /\ nq_pc' = "done"
    /\ UNCHANGED <<nq_argv_len, nq_isdir, nq_disk, nq_orig, nq_stack, nq_dirpath,
                   nq_files, changed, nq_written, nq_stderr>>
    /\ UNCHANGED <<nq_first_stdout, not_quotes>>

NextQuotes ==
    \/ nq_main_check_args
    \/ nq_main_walk
    \/ nq_main_file
    \/ nq_main_report

SpecQuotes == InitQuotes /\ [][NextQuotes]_vars

\* The script is started again on the same root after a run that returned 0,
\* with nothing else having touched the directory: a new process, the files
\* as the earlier run left them.
nq_rerun ==
    /\ nq_pc = "done"
    /\ nq_exit = 0
    /\ nq_first_stdout = <<>>
    /\ nq_first_stdout' = nq_stdout
    /\ nq_orig' = nq_disk
    /\ nq_pc' = "main"
    /\ nq_stack' = <<>>
    /\ nq_dirpath' = <<>>
    /\ nq_files' = {}
    /\ changed' = <<>>
    /\ nq_written' = {}
    /\ nq_stdout' = <<>>
    /\ nq_stderr' = <<>>
    /\ nq_exit' = -1
    /\ UNCHANGED <<nq_argv_len, nq_isdir, nq_disk>>
    /\ UNCHANGED not_quotes

NextQuotesRerun == NextQuotes \/ nq_rerun

SpecQuotesRerun == InitQuotes /\ [][NextQuotesRerun]_vars

----------------------------------------------------------------------------
(* Vocabulary of the properties of normalize_ascii_quotes *)

CurlyQuotes == {"U+201C", "U+201D", "U+2018", "U+2019"}

HasCurly(text) == \E k \in 1..Len(text) : text[k] \in CurlyQuotes

\* No directory on the way to the file is one of the three skipped names.
OutsideSkipDirs(path) ==
    \A k \in 1..(Len(path) - 1) :
        path[k] \notin {<<".git">>, <<".obsidian">>, <<"node_modules">>}

\* The extension of the file name, lower-cased, is none of SKIP_EXTENSIONS.
TextExtension(path) ==
    LET f == path[Len(path)]
    IN ~(Len(f) >= 2 /\ f[Len(f)] \in {".PNG", ".png"})

\* The files the script is meant to process.
Processed(path) ==
    /\ OutsideSkipDirs(path)
    /\ TextExtension(path)
    /\ decodes(nq_orig[path])

\* The text with each curly quote replaced and every other character kept.
Straightened(text) ==
    [k \in 1..Len(text) |->
        IF text[k] \in {"U+201C", "U+201D"} THEN "0x22"
        ELSE IF text[k] \in {"U+2018", "U+2019"} THEN "0x27"
        ELSE text[k]]

QuotesRunDone == nq_pc = "done" /\ nq_exit = 0

----------------------------------------------------------------------------
\* C16: after a run, every file that is reachable without entering a
\* skipped directory, has a text extension and decodes as UTF-8 holds no
\* curly quote: it holds its original text with each curly double quote
\* replaced by 0x22, each curly single quote by 0x27, and every other
\* character as it was.
C16_ProcessedFilesStraightened ==
    QuotesRunDone =>
        \A path \in TreeFiles :
            Processed(path) =>
                /\ ~HasCurly(nq_disk[path])
                /\ nq_disk[path] = Straightened(nq_orig[path])

----------------------------------------------------------------------------
\* C17: a file is written only if it is outside every .git, .obsidian and
\* node_modules directory, its lower-cased extension is not in
\* SKIP_EXTENSIONS, it decodes as UTF-8 and it holds a curly quote; every
\* file that is not written keeps its content; and the files reported as
\* changed are exactly the files written.
C17_WritesOnlyCurlyTextFiles ==
    nq_pc # "not started" =>
        /\ \A path \in nq_written :
              /\ OutsideSkipDirs(path)
              /\ TextExtension(path)
              /\ decodes(nq_orig[path])
              /\ HasCurly(nq_orig[path])
        /\ \A path \in TreeFiles \ nq_written : nq_disk[path] = nq_orig[path]
        /\ Range(changed) = {relpath(path) : path \in nq_written}
        /\ QuotesRunDone =>
              /\ nq_stdout[1] = <<"Replaced curly quotes in:", Cardinality(nq_written), "files">>
              /\ {nq_stdout[k][2] : k \in 2..Len(nq_stdout)}
                    = {relpath(path) : path \in nq_written}
              /\ Len(nq_stdout) = 1 + Cardinality(nq_written)

\* A run wrote two files and left alone files with curly quotes in .git,
\* in a skipped directory below root and in an image.
C17_Witness ==
    /\ QuotesRunDone
    /\ nq_written = {<<n_a_md>>, <<n_sub, n_b_TXT>>}
    /\ HasCurly(nq_orig[<<n_sub, n_obsidian, n_c_md>>])
    /\ HasCurly(nq_orig[<<n_img_PNG>>])
    /\ HasCurly(nq_orig[<<n_git, n_config>>])

----------------------------------------------------------------------------
(* facts/collect_odm_run_record.py                                          *)
(*                                                                          *)
(* A Python value is a record of its type t and its literal v.  A JSON      *)
(* object with known fields (the options, the defaults, stats.json) is a    *)
(* function from field names to values.                                     *)

\* Most options of log.json that are explored.
MaxOptions == 2

PyNone == [t |-> "NoneType", v |-> "None"]
PyStr(x) == [t |-> "str", v |-> x]
PyBool(x) == [t |-> "bool", v |-> x]
PyInt(x) == [t |-> "int", v |-> x]
PyFloat(x) == [t |-> "float", v |-> x]
EmptyObject == [t |-> "dict", v |-> "{}"]

\* A GeoJSON feature with a polygon of four points.
BoundaryPolygon ==
    [t |-> "dict",
     v |-> "{'geometry': {'type': 'Polygon', 'coordinates': [[[0, 0], [0, 1], [1, 1], [0, 0]]]}}"]

OptionValues ==
    {PyNone, PyStr(""), PyStr("high"), PyBool("False"), PyBool("True"),
     PyInt("0"), PyInt("5"), PyFloat("0.0"), PyFloat("5.0"), EmptyObject, BoundaryPolygon}

\* The option names explored, in the order of Python's sorted().
SortedKeys == <<"boundary", "dsm", "gltf", "name", "orthophoto-resolution", "project_path">>

OptionObjects ==
    UNION {[S -> OptionValues] : S \in {T \in SUBSET Range(SortedKeys) : Cardinality(T) <= MaxOptions}}

\* Contents of odm_option_defaults.json: a generated file, not in the repository.
DefaultsFiles == {
    ("boundary" :> PyStr("")) @@ ("dsm" :> PyBool("False"))
        @@ ("orthophoto-resolution" :> PyInt("5")),
    ("boundary" :> PyNone) @@ ("dsm" :> PyBool("False")) @@ ("gltf" :> PyNone)
        @@ ("orthophoto-resolution" :> PyFloat("5.0")),
    ("dsm" :> PyInt("0")) }

\* Contents of odm_report/stats.json; area in 0.01 m2, times in 0.01 s, GSD in 0.0001 cm.
StatsFiles == {
    <<>>,
    [processing_statistics |-> [date |-> "01/02/2025", area |-> 1234567],
     reconstruction_statistics |-> [reconstructed_shots_count |-> 120,
                                    average_track_length |-> 31234],
     odm_processing_statistics |-> [total_time |-> 600000, total_time_human |-> "1h 40m",
                                    average_gsd |-> 21500]] }

RecordPaths == {"log.json", "odm_report/stats.json", "odm_option_defaults.json"}

\* isinstance(val, (int, float)); bool is a subclass of int.
IsNumber(val) == val.t \in {"bool", "int", "float"}

\* float(val), for the numbers explored.
ToFloat(val) ==
    CASE val.v \in {"False", "0", "0.0"} -> 0
      [] val.v = "True" -> 1
      [] val.v \in {"5", "5.0"} -> 5

\* a == b
PyEq(a, b) ==
    IF IsNumber(a) /\ IsNumber(b) THEN ToFloat(a) = ToFloat(b) ELSE a = b

\* bool(run_val.get("geometry")) for a dictionary.
HasGeometry(val) == val = BoundaryPolygon

\* dict.get(key), with None for a missing key.
DictGet(d, key) == IF key \in DOMAIN d THEN d[key] ELSE PyNone

option_value_display(opts, key) ==
    LET v == DictGet(opts, key)
    IN IF v = PyNone THEN "U+2014"
       ELSE IF key = "boundary" /\ v.t = "dict"
       THEN IF v = BoundaryPolygon THEN "custom polygon (4 points)" ELSE "custom polygon"
       ELSE IF v.t = "bool" THEN (IF v.v = "True" THEN "true" ELSE "false")
       ELSE IF v = BoundaryPolygon
       THEN "{'geometry': {'type': 'Polygon', 'coordinates': [[[0, 0], [0,"
       ELSE v.v

is_default(run_val, default_val, key) ==
    IF default_val = PyNone /\ run_val = PyNone THEN TRUE
    ELSE IF default_val = PyNone /\ (PyEq(run_val, EmptyObject) \/ PyEq(run_val, PyStr(""))) THEN TRUE
    ELSE IF key = "boundary"
    THEN IF \/ default_val = PyNone
            \/ PyEq(default_val, PyStr(""))
            \/ PyEq(default_val, EmptyObject)
         THEN ~(run_val.t = "dict" /\ HasGeometry(run_val))
         ELSE PyEq(run_val, default_val)
    ELSE IF PyEq(run_val, default_val) THEN TRUE
    ELSE IF IsNumber(run_val) /\ IsNumber(default_val)
    THEN ToFloat(run_val) = ToFloat(default_val)
    ELSE FALSE

\* _looks_like_zero_default without the test for numbers.
looks_like_zero_default_no_number(val) ==
    IF val = PyNone \/ PyEq(val, PyStr("")) THEN TRUE
    ELSE val = PyBool("False")

\* _looks_like_zero_default
looks_like_zero_default(val) ==
    IF val = PyNone \/ PyEq(val, PyStr("")) THEN TRUE
    ELSE IF val = PyBool("False") THEN TRUE
    ELSE IF IsNumber(val) /\ ToFloat(val) = 0 THEN TRUE
    ELSE FALSE

\* sorted(log_options.keys())
sorted_keys(log_options) == SelectSeq(SortedKeys, LAMBDA key : key \in DOMAIN log_options)

\* format_table(headers, rows) for a non-empty rows.
format_table(headers, rows) == <<"table", headers, rows>>

\* d.get(key, {}) or {} for a JSON object d.
ObjGet(d, key) == IF key \in DOMAIN d THEN d[key] ELSE <<>>

\* [row] if cond else []
RowIf(cond, row) == IF cond THEN <<row>> ELSE <<>>

\* print(format_table(...)) under "if rows", then print().
PrintRows(rows) ==
    (IF rows # <<>> THEN <<format_table(<<"Metric", "Value">>, rows)>> ELSE <<>>) \o << <<"">> >>

\* Lines 148-166.  No stats.json explored has start_date, end_date or steps_times.
ProcessingRows(ps) ==
    RowIf("date" \in DOMAIN ps, <<"Report date", ObjGet(ps, "date")>>)
    \o RowIf("area" \in DOMAIN ps, <<"Area (m2)", <<".2f", ObjGet(ps, "area")>>>>)

\* Lines 180-197.
ReconstructionKeys ==
    <<"initial_points_count", "initial_shots_count", "reconstructed_points_count",
      "reconstructed_shots_count", "observations_count", "average_track_length",
      "average_track_length_over_two">>

ReconstructionRows(rs) ==
    LET present == SelectSeq(ReconstructionKeys, LAMBDA k : k \in DOMAIN rs)
    IN [n \in 1..Len(present) |->
          IF present[n] \in {"average_track_length", "average_track_length_over_two"}
          THEN <<present[n], <<".4f", rs[present[n]]>>>>
          ELSE <<present[n], <<"str", rs[present[n]]>>>>]

\* Lines 201-208.
ReprojectionRows(rs) ==
    LET present == SelectSeq(<<"reprojection_error_normalized", "reprojection_error_pixels",
                               "reprojection_error_angular">>, LAMBDA k : k \in DOMAIN rs)
    IN [n \in 1..Len(present) |-> <<present[n], <<".6g", rs[present[n]]>>>>]

\* Lines 229-241.
OdmRows(odm) ==
    RowIf("total_time" \in DOMAIN odm, <<"Total time (s)", <<".2f", ObjGet(odm, "total_time")>>>>)
    \o RowIf("total_time_human" \in DOMAIN odm,
             <<"Total time (human)", ObjGet(odm, "total_time_human")>>)
    \o RowIf("average_gsd" \in DOMAIN odm,
             <<"Average GSD (cm/px)", <<".4f", ObjGet(odm, "average_gsd")>>>>)

InitRecord ==
    /\ AnalyzeIdle
    /\ QuotesIdle
    /\ TechSpecsIdle
    /\ rr_pc = "main"
    /\ rr_argv_len \in {1, 2, 3}
    /\ rr_isdir \in BOOLEAN
    /\ rr_exists \in SUBSET RecordPaths
    /\ rr_read = <<>>
    /\ defaults = <<>>
    /\ options = <<>>
    /\ stats_data = <<>>
    /\ rr_k = 0
    /\ out = <<>>
    /\ rr_stdout = <<>>
    /\ rr_stderr = <<>>
    /\ rr_raised = ""
    /\ rr_exit = -1
    /\ ExifIdle

\* "return 1" of main after one message on the error stream.
ReturnOne(msg) ==
    /\ rr_stderr' = Append(rr_stderr, msg)
    /\ rr_exit' = 1
    /\ rr_pc' = "done"

\* rr_main_check with the test for stats.json before the test for log.json.
rr_main_check_stats_first ==
    /\ rr_pc = "main"
    /\ IF rr_argv_len # 2
       THEN ReturnOne(<<"Usage: collect_odm_run_record.py <map_output_dir>">>)
       ELSE IF ~rr_isdir
       THEN ReturnOne(<<"Not a directory:", "map_dir">>)
       ELSE IF "odm_report/stats.json" \notin rr_exists
       THEN ReturnOne(<<"Missing:", "odm_report/stats.json">>)
       ELSE IF "log.json" \notin rr_exists
       THEN ReturnOne(<<"Missing:", "log.json">>)
       ELSE /\ rr_pc' = "load"
            /\ UNCHANGED <<rr_stderr, rr_exit>>
    /\ UNCHANGED <<rr_argv_len, rr_isdir, rr_exists, rr_read, defaults, options,
                   stats_data, rr_k, out, rr_stdout, rr_raised>>
    /\ UNCHANGED not_record

\* main, lines 111-127: the four checks.
rr_main_check ==
    /\ rr_pc = "main"
    /\ IF rr_argv_len # 2
       THEN ReturnOne(<<"Usage: collect_odm_run_record.py <map_output_dir>">>)
       ELSE IF ~rr_isdir
       THEN ReturnOne(<<"Not a directory:", "map_dir">>)
       ELSE IF "log.json" \notin rr_exists
       THEN ReturnOne(<<"Missing:", "log.json">>)
       ELSE IF "odm_report/stats.json" \notin rr_exists
       THEN ReturnOne(<<"Missing:", "odm_report/stats.json">>)
       ELSE /\ rr_pc' = "load"
            /\ UNCHANGED <<rr_stderr, rr_exit>>
    /\ UNCHANGED <<rr_argv_len, rr_isdir, rr_exists, rr_read, defaults, options,
                   stats_data, rr_k, out, rr_stdout, rr_raised>>
    /\ UNCHANGED not_record

\* main, lines 129-135: load_defaults (lines 23-27), the two json.loads,
\* log_data.get("options", {}) and the entry of non_default_options.
rr_main_load ==
    /\ rr_pc = "load"
    /\ IF "odm_option_defaults.json" \notin rr_exists
       THEN /\ rr_raised' = "FileNotFoundError"
            /\ rr_stderr' = Append(rr_stderr, <<"Traceback", "FileNotFoundError">>)
            /\ rr_exit' = 1
            /\ rr_pc' = "done"
            /\ UNCHANGED <<rr_read, defaults, options, stats_data, rr_k, out>>
       ELSE /\ defaults' \in DefaultsFiles
            /\ options' \in OptionObjects
            /\ stats_data' \in StatsFiles
            /\ rr_read' = <<"odm_option_defaults.json", "log.json", "odm_report/stats.json">>
            /\ rr_k' = 1
            /\ out' = <<>>
            /\ rr_pc' = "non_default_options"
            /\ UNCHANGED <<rr_stderr, rr_raised, rr_exit>>
    /\ UNCHANGED <<rr_argv_len, rr_isdir, rr_exists, rr_stdout>>
    /\ UNCHANGED not_record

\* non_default_options, lines 80-90: one turn of the loop.
non_default_options ==
    /\ rr_pc = "non_default_options"
    /\ rr_k <= Len(sorted_keys(options))
    /\ LET key == sorted_keys(options)[rr_k]
           unknown == key \notin DOMAIN defaults
           run_val == options[key]
           default_val == DictGet(defaults, key)
       IN out' = IF key \in {"project_path", "name"} THEN out
                 ELSE IF ~unknown /\ is_default(run_val, default_val, key) THEN out
                 ELSE IF unknown /\ looks_like_zero_default(run_val) THEN out
                 ELSE Append(out, <<key, option_value_display(options, key), unknown>>)
    /\ rr_k' = rr_k + 1
    /\ UNCHANGED <<rr_pc, rr_argv_len, rr_isdir, rr_exists, rr_read, defaults, options,
                   stats_data, rr_stdout, rr_stderr, rr_raised, rr_exit>>
    /\ UNCHANGED not_record

\* main, lines 135-145: non_default_options has returned; the options table.
rr_main_print_options ==
    /\ rr_pc = "non_default_options"
    /\ rr_k > Len(sorted_keys(options))
    /\ LET rows == [n \in 1..Len(out) |-> <<out[n][1], <<out[n][2], out[n][3]>>>>]
           unknowns == SelectSeq(out, LAMBDA e : e[3])
       IN rr_stdout' = rr_stdout
             \o << <<"### ODM options (non-default only)">>, <<"">> >>
             \o (IF out # <<>>
                 THEN <<format_table(<<"Option", "Value">>, rows)>>
                      \o (IF unknowns # <<>>
                          THEN << <<"(?) Not in defaults file:",
                                    [n \in 1..Len(unknowns) |-> unknowns[n][1]]>> >>
                          ELSE <<>>)
                 ELSE << <<"All options at default values.">>, <<"">> >>)
             \o << <<"">> >>
    /\ rr_pc' = "print_stats"
    /\ UNCHANGED <<rr_argv_len, rr_isdir, rr_exists, rr_read, defaults, options,
                   stats_data, rr_k, out, rr_stderr, rr_raised, rr_exit>>
    /\ UNCHANGED not_record

\* main, lines 147-243, and sys.exit(main()).  No stats.json explored has
\* features_statistics or gps_errors: those two sections print no table.
rr_main_print_stats ==
    /\ rr_pc = "print_stats"
    /\ rr_stdout' = rr_stdout
          \o << <<"### Processing statistics">>, <<"">> >>
          \o PrintRows(ProcessingRows(ObjGet(stats_data, "processing_statistics")))
          \o << <<"### Features statistics">>, <<"">> >>
          \o PrintRows(<<>>)
          \o << <<"### Reconstruction">>, <<"">> >>
          \o PrintRows(ReconstructionRows(ObjGet(stats_data, "reconstruction_statistics")))
          \o << <<"### Reprojection errors">>, <<"">> >>
          \o PrintRows(ReprojectionRows(ObjGet(stats_data, "reconstruction_statistics")))
          \o << <<"### GPS errors">>, <<"">> >>
          \o PrintRows(<<>>)
          \o << <<"### ODM processing">>, <<"">> >>
          \o (LET rows == OdmRows(ObjGet(stats_data, "odm_processing_statistics"))
              IN IF rows # <<>> THEN <<format_table(<<"Metric", "Value">>, rows)>> ELSE <<>>)
    /\ rr_exit' = 0
    /\ rr_pc' = "done"
    /\ UNCHANGED <<rr_argv_len, rr_isdir, rr_exists, rr_read, defaults, options,
                   stats_data, rr_k, out, rr_stderr, rr_raised>>
    /\ UNCHANGED not_record

NextRecord ==
    \/ rr_main_check
    \/ rr_main_load
    \/ non_default_options
    \/ rr_main_print_options
    \/ rr_main_print_stats

SpecRecord == InitRecord /\ [][NextRecord]_vars

----------------------------------------------------------------------------
(* Vocabulary of the properties of collect_odm_run_record *)

\* non_default_options has returned.
OptionsReturned ==
    \/ rr_pc = "non_default_options" /\ rr_k > Len(sorted_keys(options))
    \/ rr_pc = "print_stats"
    \/ rr_pc = "done" /\ rr_exit = 0

\* None, '', False and 0.
ZeroLike == {PyNone, PyStr(""), PyBool("False"), PyInt("0"), PyFloat("0.0")}

KeyRank(key) == CHOOSE n \in 1..Len(SortedKeys) : SortedKeys[n] = key

\* The keys the result has to hold.
NonDefaultKeys ==
    {key \in DOMAIN options \ {"project_path", "name"} :
        \/ key \in DOMAIN defaults /\ ~is_default(options[key], defaults[key], key)
        \/ key \notin DOMAIN defaults /\ options[key] \notin ZeroLike}

\* The run and the default value of the key are an int and a float (or the
\* reverse) of the same number.
SameNumberOtherType(key) ==
    /\ key \in DOMAIN options \cap DOMAIN defaults
    /\ {options[key].t, defaults[key].t} = {"int", "float"}
    /\ ToFloat(options[key]) = ToFloat(defaults[key])

\* One of the four preconditions of main does not hold.
PreconditionFails ==
    \/ rr_argv_len # 2
    \/ ~rr_isdir
    \/ "log.json" \notin rr_exists
    \/ "odm_report/stats.json" \notin rr_exists

\* The message of the first precondition that does not hold.
FirstFailureMessage ==
    IF rr_argv_len # 2 THEN <<"Usage: collect_odm_run_record.py <map_output_dir>">>
    ELSE IF ~rr_isdir THEN <<"Not a directory:", "map_dir">>
    ELSE IF "log.json" \notin rr_exists THEN <<"Missing:", "log.json">>
    ELSE <<"Missing:", "odm_report/stats.json">>

----------------------------------------------------------------------------
\* C18: the list non_default_options returns has, in ascending key order,
\* one entry for exactly the keys of the options other than project_path and
\* name that are in the defaults with is_default false, or not in the
\* defaults with a value other than None, '', False and 0; the entry holds
\* the key, its display value and unknown, which is true exactly when the
\* key is not in the defaults; a key whose run value and default are the
\* same number as int and as float has no entry.
C18_NonDefaultOptions ==
    OptionsReturned =>
        /\ {out[n][1] : n \in 1..Len(out)} = NonDefaultKeys
        /\ \A m, n \in 1..Len(out) : m < n => KeyRank(out[m][1]) < KeyRank(out[n][1])
        /\ \A n \in 1..Len(out) :
              /\ out[n][2] = option_value_display(options, out[n][1])
              /\ out[n][3] = (out[n][1] \notin DOMAIN defaults)
        /\ \A key \in DOMAIN options :
              SameNumberOtherType(key) => \A n \in 1..Len(out) : out[n][1] # key

\* The options hold a key that is 5 where the default is 5.0 (or the
\* reverse) and a key that is not in the defaults and is reported.
C18_Witness ==
    /\ OptionsReturned
    /\ \E key \in DOMAIN options : SameNumberOtherType(key) /\ ToFloat(options[key]) = 5
    /\ Len(out) = 1
    /\ out[1][3]

----------------------------------------------------------------------------
\* C19: when the argument count is wrong, the path is not a directory,
\* log.json is missing or odm_report/stats.json is missing, main returns 1
\* with the one message of the first of these that fails, in this order, on
\* the error stream, nothing on standard output, and no file read: neither
\* the defaults file nor either JSON file.
C19_PreconditionsChecked ==
    (rr_pc # "not started" /\ PreconditionFails) =>
        /\ rr_pc \in {"main", "done"}
        /\ rr_stdout = <<>>
        /\ rr_read = <<>>
        /\ defaults = <<>>
        /\ rr_raised = ""
        /\ rr_pc = "done" =>
              /\ rr_exit = 1
              /\ rr_stderr = <<FirstFailureMessage>>

\* main has returned 1 for a directory that holds neither file.
C19_Witness ==
    /\ rr_pc = "done"
    /\ rr_argv_len = 2
    /\ rr_isdir
    /\ rr_exists = {}
    /\ rr_exit = 1
    /\ rr_stderr = << <<"Missing:", "log.json">> >>

----------------------------------------------------------------------------
(* unifi/extract_tech_specs.py: one call of extract_tech_specs(url).        *)
(*                                                                          *)
(* A JSON object is a function from its field names.  A value of            *)
(* section_data is a record of value (the string, "" for a nested group)    *)
(* and nested (the dictionary of a nested group, empty for a string).       *)

\* Longest 'sections' array that is explored.
MaxSections == 2

\* Entries of a section's 'features' array.
fe_weight == [feature |-> [label |-> "Weight"], value |-> "1 kg"]
fe_weight_2 == [feature |-> [label |-> "Weight", parentId |-> "None"], value |-> "2 kg"]
fe_poe == [feature |-> [label |-> "PoE", parentId |-> "None"], flag |-> "True"]
fe_bluetooth == [feature |-> [label |-> "Bluetooth"], flag |-> "False"]
fe_depth == [feature |-> [label |-> "Depth"], value |-> ""]
fe_no_feature == [value |-> "n/a"]
fe_port == [feature |-> [label |-> "Port", parentId |-> "f7"], value |-> "RJ45"]
fe_sfp == [feature |-> [label |-> "SFP", parentId |-> "f7"], flag |-> "True"]
fe_usb == [feature |-> [label |-> "USB", parentId |-> "f7"], flag |-> "False"]
fe_port_layout == [feature |-> [label |-> "Port Layout"], features |-> <<fe_port, fe_sfp, fe_usb>>]
fe_empty_group == [feature |-> [label |-> "Buttons"], features |-> <<fe_usb>>]

FeatureLists == {
    <<>>,
    <<fe_weight, fe_poe>>,
    <<fe_port>>,
    <<fe_port_layout, fe_port, fe_sfp, fe_usb>>,
    <<fe_empty_group, fe_bluetooth, fe_usb>>,
    <<fe_depth, fe_no_feature>>,
    <<fe_weight, fe_empty_group, fe_weight_2>>,
    <<fe_bluetooth, fe_port_layout>> }

SectionLabels == {"Layer 2 Features", "General", "Hardware"}

\* The objects of 'sections'; the last one has no 'section' field.
SectionObjects ==
    {[section |-> [label |-> l], features |-> fl] : l \in SectionLabels, fl \in FeatureLists}
    \cup {[features |-> <<fe_weight>>]}

SectionLists == SeqsUpTo(SectionObjects, MaxSections)

PageOutcomes == {"URLError", "no __NEXT_DATA__", "JSONDecodeError", "data"}

\* feature_entry.get('feature', {})
feature_of(feature_entry) ==
    IF "feature" \in DOMAIN feature_entry THEN feature_entry.feature ELSE <<>>

\* feature.get('label', '')
label_of(feature) == IF "label" \in DOMAIN feature THEN feature.label ELSE ""

\* feature.get('parentId') is None
parent_is_none(feature) == "parentId" \notin DOMAIN feature \/ feature.parentId = "None"

\* 'value' in entry and entry['value']
has_value(entry) == "value" \in DOMAIN entry /\ entry.value # ""

\* entry.get('flag') == 'True'
has_flag(entry) == "flag" \in DOMAIN entry /\ entry.flag = "True"

\* Lines 69-75: the loop over the sub-features of a group.
RECURSIVE nested_data_of(_, _)
nested_data_of(sub_features, nested_data) ==
    IF sub_features = <<>> THEN nested_data
    ELSE LET sub_feature == Head(sub_features)
             sub_label == label_of(feature_of(sub_feature))
         IN nested_data_of(Tail(sub_features),
                IF has_value(sub_feature) THEN DictPut(nested_data, sub_label, sub_feature.value)
                ELSE IF has_flag(sub_feature) THEN DictPut(nested_data, sub_label, "Yes")
                ELSE nested_data)

\* section_data_of that takes every entry, whatever its parentId.
RECURSIVE section_data_of_any_parent(_, _)
section_data_of_any_parent(entries, section_data) ==
    IF entries = <<>> THEN section_data
    ELSE LET feature_entry == Head(entries)
             label == label_of(feature_of(feature_entry))
             nested_data == nested_data_of(feature_entry.features, EmptyDict)
         IN section_data_of_any_parent(Tail(entries),
                IF has_value(feature_entry)
                THEN DictPut(section_data, label,
                             [value |-> feature_entry.value, nested |-> EmptyDict])
                ELSE IF has_flag(feature_entry)
                THEN DictPut(section_data, label, [value |-> "Yes", nested |-> EmptyDict])
                ELSE IF "features" \in DOMAIN feature_entry /\ nested_data # EmptyDict
                THEN DictPut(section_data, label, [value |-> "", nested |-> nested_data])
                ELSE section_data)

\* Lines 57-77: the loop over the entries of a section.
RECURSIVE section_data_of(_, _)
section_data_of(entries, section_data) ==
    IF entries = <<>> THEN section_data
    ELSE LET feature_entry == Head(entries)
             feature == feature_of(feature_entry)
             label == label_of(feature)
             nested_data == nested_data_of(feature_entry.features, EmptyDict)
         IN section_data_of(Tail(entries),
                IF ~parent_is_none(feature) THEN section_data
                ELSE IF has_value(feature_entry)
                THEN DictPut(section_data, label,
                             [value |-> feature_entry.value, nested |-> EmptyDict])
                ELSE IF has_flag(feature_entry)
                THEN DictPut(section_data, label, [value |-> "Yes", nested |-> EmptyDict])
                ELSE IF "features" \in DOMAIN feature_entry /\ nested_data # EmptyDict
                THEN DictPut(section_data, label, [value |-> "", nested |-> nested_data])
                ELSE section_data)

InitTechSpecs ==
    /\ AnalyzeIdle
    /\ QuotesIdle
    /\ RecordIdle
    /\ ts_pc = "fetch"
    /\ page = ""
    /\ sections = <<>>
    /\ ts_n = 0
    /\ ts_result = <<>>
    /\ ts_returned = ""
    /\ ts_stderr = <<>>
    /\ ExifIdle

\* "return None" after one message on the error stream.
ReturnNone(msg) ==
    /\ ts_stderr' = Append(ts_stderr, msg)
    /\ ts_returned' = "None"
    /\ ts_pc' = "done"

\* Lines 29-51: the request, the search for the script tag, json.loads and
\* the way down to 'sections'.
extract_tech_specs_fetch ==
    /\ ts_pc = "fetch"
    /\ \E outcome \in PageOutcomes :
         /\ page' = outcome
         /\ IF outcome = "no __NEXT_DATA__"
            THEN /\ ReturnNone(<<"Warning: Could not find __NEXT_DATA__ in", "url">>)
                 /\ UNCHANGED <<sections, ts_n, ts_result>>
            ELSE IF outcome # "data"
            THEN /\ ReturnNone(<<"Error extracting specs from", "url", outcome>>)
                 /\ UNCHANGED <<sections, ts_n, ts_result>>
            ELSE /\ sections' \in SectionLists
                 /\ ts_n' = 1
                 /\ ts_result' = EmptyDict
                 /\ ts_pc' = "sections"
                 /\ UNCHANGED <<ts_returned, ts_stderr>>
    /\ UNCHANGED not_techspecs

\* Lines 52-80: one turn of "for section in sections".
extract_tech_specs_section ==
    /\ ts_pc = "sections"
    /\ ts_n <= Len(sections)
    /\ LET section == sections[ts_n]
       IN IF "section" \notin DOMAIN section
          THEN /\ ReturnNone(<<"Error extracting specs from", "url", "KeyError">>)
               /\ UNCHANGED <<ts_n, ts_result>>
          ELSE LET section_label == section.section.label
                   section_data == section_data_of(section.features, EmptyDict)
               IN /\ ts_result' = IF section_label = "Layer 2 Features" THEN ts_result
                                ELSE IF section_data # EmptyDict
                                THEN DictPut(ts_result, section_label, section_data)
                                ELSE ts_result
                  /\ ts_n' = ts_n + 1
                  /\ UNCHANGED <<ts_pc, ts_returned, ts_stderr>>
    /\ UNCHANGED <<page, sections>>
    /\ UNCHANGED not_techspecs

\* Line 82.
extract_tech_specs_return ==
    /\ ts_pc = "sections"
    /\ ts_n > Len(sections)
    /\ ts_returned' = "dict"
    /\ ts_pc' = "done"
    /\ UNCHANGED <<page, sections, ts_n, ts_result, ts_stderr>>
    /\ UNCHANGED not_techspecs

NextTechSpecs ==
    \/ extract_tech_specs_fetch
    \/ extract_tech_specs_section
    \/ extract_tech_specs_return

SpecTechSpecs == InitTechSpecs /\ [][NextTechSpecs]_vars

----------------------------------------------------------------------------
(* Vocabulary of the properties of extract_tech_specs *)

\* The entry or sub-feature carries a value: a non-empty 'value' or the flag 'True'.
CarriesValue(entry) ==
    \/ "value" \in DOMAIN entry /\ entry.value # ""
    \/ "flag" \in DOMAIN entry /\ entry.flag = "True"

\* The entry yields something: a value of its own or a sub-feature with one.
YieldsValue(entry) ==
    \/ CarriesValue(entry)
    \/ /\ "features" \in DOMAIN entry
       /\ \E n \in 1..Len(entry.features) : CarriesValue(entry.features[n])

EntryLabel(entry) ==
    IF "feature" \in DOMAIN entry /\ "label" \in DOMAIN entry.feature
    THEN entry.feature.label ELSE ""

NoParent(entry) ==
    \/ "feature" \notin DOMAIN entry
    \/ "parentId" \notin DOMAIN entry.feature
    \/ entry.feature.parentId = "None"

\* The entries of the sections labelled l that have no parent and yield something.
TopLevelYielding(l) ==
    UNION {{sec.features[n] : n \in {m \in 1..Len(sec.features) :
                                        /\ NoParent(sec.features[m])
                                        /\ YieldsValue(sec.features[m])}} :
           sec \in {x \in Range(sections) : x.section.label = l}}

\* The entries of one section that have no parent and yield something.
YieldingEntries(sec) ==
    {sec.features[n] : n \in {m \in 1..Len(sec.features) :
                                   /\ NoParent(sec.features[m])
                                   /\ YieldsValue(sec.features[m])}}

\* The last of the sections labelled l that yields something.
LastYielding(l) ==
    LET at == {n \in 1..Len(sections) :
                  sections[n].section.label = l /\ YieldingEntries(sections[n]) # {}}
    IN sections[CHOOSE n \in at : \A m \in at : m <= n]

\* The call has returned the dictionary.
ReturnedDict == ts_pc = "done" /\ ts_returned = "dict"

----------------------------------------------------------------------------
\* C20 as stated, for the part on parentId: every feature of the returned
\* dictionary, the members of nested groups included, has parentId None.
C20_OnlyParentlessFeatures ==
    ReturnedDict =>
        \A l \in DOMAIN ts_result : \A k \in DOMAIN ts_result[l] :
            /\ \E e \in TopLevelYielding(l) : EntryLabel(e) = k
            /\ \A j \in DOMAIN ts_result[l][k].nested :
                  \E e \in TopLevelYielding(l) :
                      /\ EntryLabel(e) = k
                      /\ "features" \in DOMAIN e
                      /\ \E n \in 1..Len(e.features) :
                            /\ EntryLabel(e.features[n]) = j
                            /\ NoParent(e.features[n])

\* C20 amended: the call ends by returning None or a dictionary; it returns
\* None when the page cannot be fetched, has no __NEXT_DATA__ tag or cannot
\* be parsed; the dictionary is keyed by the labels of exactly the sections
\* other than 'Layer 2 Features' that yield a value, the last such section
\* of a label being the one kept; the entries of a section come only from
\* features whose parentId is None; a nested group is there only with at
\* least one member, and its members are sub-features of the group that
\* carry a value, whatever their parentId.
C20_TechSpecs ==
    ts_pc = "done" =>
        /\ ts_returned \in {"None", "dict"}
        /\ page # "data" => ts_returned = "None" /\ Len(ts_stderr) = 1
        /\ ts_returned = "dict" =>
              /\ "Layer 2 Features" \notin DOMAIN ts_result
              /\ DOMAIN ts_result =
                    {l \in SectionLabels \ {"Layer 2 Features"} : TopLevelYielding(l) # {}}
              /\ \A l \in DOMAIN ts_result :
                    /\ DOMAIN ts_result[l] = {EntryLabel(e) : e \in YieldingEntries(LastYielding(l))}
                    /\ \A k \in DOMAIN ts_result[l] :
                          /\ ts_result[l][k].value = "" <=> ts_result[l][k].nested # EmptyDict
                          /\ \A j \in DOMAIN ts_result[l][k].nested :
                                \E e \in YieldingEntries(LastYielding(l)) :
                                    /\ EntryLabel(e) = k
                                    /\ "features" \in DOMAIN e
                                    /\ \E n \in 1..Len(e.features) :
                                          /\ EntryLabel(e.features[n]) = j
                                          /\ CarriesValue(e.features[n])

\* The dictionary is returned with a nested group, for a page that also has
\* a 'Layer 2 Features' section with values.
C20_Witness ==
    /\ ReturnedDict
    /\ "Hardware" \in DOMAIN ts_result
    /\ "Port Layout" \in DOMAIN ts_result["Hardware"]
    /\ DOMAIN ts_result["Hardware"]["Port Layout"].nested = {"Port", "SFP"}
    /\ \E n \in 1..Len(sections) :
          /\ sections[n].section.label = "Layer 2 Features"
          /\ \E m \in 1..Len(sections[n].features) : YieldsValue(sections[n].features[m])

----------------------------------------------------------------------------
(* load_reconstructed_shots, checked in the run of analyze_odm_reconstruction *)

\* load_reconstructed_shots has returned in this run.
ShotsLoaded == "odm_report/shots.geojson" \in files_read

\* The place in the features array of the last feature that carries filename fn.
LastFeatureOf(fn) ==
    CHOOSE k \in 1..Len(shots_geojson) :
        /\ shots_geojson[k].filename = fn
        /\ \A j \in (k + 1)..Len(shots_geojson) : shots_geojson[j].filename # fn

\* C22: the mapping load_reconstructed_shots returns has one entry for each
\* distinct filename of the features array and no other; the entry of a
\* filename holds the longitude, latitude and translation of the last
\* feature of the array that carries this filename.
C22_LastFeatureWins ==
    ShotsLoaded =>
        /\ DOMAIN shots = {shots_geojson[k].filename : k \in 1..Len(shots_geojson)}
        /\ \A fn \in DOMAIN shots :
              /\ shots[fn].lon = shots_geojson[LastFeatureOf(fn)].coordinates[1]
              /\ shots[fn].lat = shots_geojson[LastFeatureOf(fn)].coordinates[2]
              /\ shots[fn].translation = shots_geojson[LastFeatureOf(fn)].translation

\* Two features carry the same filename with different coordinates and
\* translations, and the mapping has been built.
C22_Witness ==
    /\ ShotsLoaded
    /\ Len(shots_geojson) = 2
    /\ shots_geojson[1].filename = shots_geojson[2].filename
    /\ shots_geojson[1].coordinates # shots_geojson[2].coordinates
    /\ shots_geojson[1].translation # shots_geojson[2].translation
    /\ shots[shots_geojson[2].filename].translation = shots_geojson[2].translation

----------------------------------------------------------------------------
\* C23: a second run of normalize_ascii_quotes over the directory the first
\* run left writes no file and reports 0 changed files, and the content of
\* every file after the second run is its content after the first.
C23_SecondRunChangesNothing ==
    nq_first_stdout # <<>> =>
        /\ nq_written = {}
        /\ changed = <<>>
        /\ nq_disk = nq_orig
        /\ nq_pc = "done" =>
              /\ nq_exit = 0
              /\ nq_stdout = << <<"Replaced curly quotes in:", 0, "files">> >>

\* The second run has ended after a first run that changed two files, over
\* a tree that still holds curly quotes in files the script does not take.
C23_Witness ==
    /\ nq_first_stdout # <<>>
    /\ nq_first_stdout[1] = <<"Replaced curly quotes in:", 2, "files">>
    /\ nq_pc = "done"
    /\ \E path \in TreeFiles : HasCurly(nq_disk[path])

----------------------------------------------------------------------------
(* facts/collect_imageset_exif.py                                           *)
(*                                                                          *)
(* A rational is <<num, den>>.  A float is an integer in a unit: 0.1 m for  *)
(* an altitude, 1/3600 degree for a latitude or longitude.  None is <<>>    *)
(* and a float x that is not None is <<x>>.  A name is a sequence of        *)
(* character codes, compared as Python compares str; the names of a folder  *)
(* differ in their stem, and the suffix is kept apart from it.              *)

\* Most entries of the folder that are explored.
MaxFiles == 2

\* GPS (deg, min, sec) of whole numbers.
Dms(d, m, sec) == << <<d, 1>>, <<m, 1>>, <<sec, 1>> >>

\* A GPS value that is a bare number, not a sequence: len() of it raises TypeError.
Scalar == <<"float">>

StrRef(x) == [t |-> "str", v |-> x]
BytesRef(x) == [t |-> "bytes", v |-> x]

\* GPS IFDs, by tag name; a tag that is absent is not in the domain.
GpsIfds == {
    <<>>,
    [GPSAltitude |-> <<1234, 10>>,
     GPSLatitude |-> Dms(40, 30, 0), GPSLatitudeRef |-> StrRef("N"),
     GPSLongitude |-> Dms(121, 15, 0), GPSLongitudeRef |-> StrRef("W")],
    [GPSAltitude |-> <<200, 1>>,
     GPSLatitude |-> Dms(10, 0, 30), GPSLatitudeRef |-> StrRef("S"),
     GPSLongitude |-> Dms(20, 0, 0), GPSLongitudeRef |-> StrRef("E")],
    [GPSLatitude |-> Dms(41, 0, 0), GPSLongitude |-> Dms(2, 30, 0)],
    [GPSAltitude |-> <<5, 0>>,
     GPSLatitude |-> Dms(12, 0, 0), GPSLatitudeRef |-> BytesRef("S ")],
    [GPSAltitude |-> <<3000, 10>>,
     GPSLongitude |-> << <<100, 1>>, <<30, 1>>, <<600, 10>> >>,
     GPSLongitudeRef |-> BytesRef("W ")],
    [GPSLatitude |-> << <<40, 1>>, <<30, 0>>, <<0, 1>> >>, GPSLatitudeRef |-> StrRef("N"),
     GPSLongitude |-> << <<121, 1>>, <<15, 1>> >>, GPSLongitudeRef |-> StrRef("W")],
    [GPSAltitude |-> <<77, 1>>,
     GPSLatitude |-> Scalar,
     GPSLongitude |-> Dms(5, 0, 0), GPSLongitudeRef |-> StrRef("W")] }

\* What a name of the folder can be: a JPEG file that opens, with one of the
\* IFDs; a JPEG file that Image.open or get_ifd rejects; a file that is no
\* JPEG by its suffix; a directory with a JPEG suffix.
FolderEntries ==
    {[suffix |-> ".jpg", is_file |-> TRUE, opens |-> "ok", gps |-> g] : g \in GpsIfds}
    \cup {[suffix |-> sfx, is_file |-> TRUE, opens |-> "ok", gps |-> g] :
             sfx \in {".JPG", ".jpeg", ".JPEG"},
             g \in {[GPSAltitude |-> <<200, 1>>,
                     GPSLatitude |-> Dms(10, 0, 30), GPSLatitudeRef |-> StrRef("S"),
                     GPSLongitude |-> Dms(20, 0, 0), GPSLongitudeRef |-> StrRef("E")]}}
    \cup {[suffix |-> ".jpg", is_file |-> TRUE, opens |-> e, gps |-> <<>>] :
             e \in {"UnidentifiedImageError", "SyntaxError"}}
    \cup {[suffix |-> sfx, is_file |-> TRUE, opens |-> "ok",
           gps |-> [GPSLatitude |-> Dms(41, 0, 0), GPSLongitude |-> Dms(2, 30, 0)]] :
             sfx \in {".png", ".Jpg"}}
    \cup {[suffix |-> ".jpg", is_file |-> FALSE, opens |-> "IsADirectoryError", gps |-> <<>>]}

\* The stems of the names: one character each.
Stems == {<<c>> : c \in 1..MaxFiles}

Folders == UNION {[S -> FolderEntries] : S \in SUBSET Stems}

\* sorted() of paths of one folder: ascending by name.
sorted_paths(S) ==
    CHOOSE o \in Orders(S) : \A a, b \in DOMAIN o : a < b => StrLess(o[a], o[b])

\* rational_to_float for a rational given as a tuple, in units of 1/unit.
rational_to_float(r, unit) ==
    IF r = <<>> THEN <<>>
    ELSE IF Len(r) # 2 THEN <<>>
    ELSE IF r[2] = 0 THEN <<>>
    ELSE <<(r[1] * unit) \div r[2]>>

\* dms_to_decimal, in units of 1/3600 degree.
dms_to_decimal(dms) ==
    IF dms = <<>> \/ Len(dms) # 3 THEN <<>>
    ELSE LET d == rational_to_float(dms[1], 3600)
             m == rational_to_float(dms[2], 60)
             sec == rational_to_float(dms[3], 1)
         IN IF d = <<>> \/ m = <<>> \/ sec = <<>> THEN <<>>
            ELSE <<d[1] + m[1] + sec[1]>>

\* gps_ifd.get(tag), with None for an absent tag.
IfdGet(gps_ifd, tag) == IF tag \in DOMAIN gps_ifd THEN gps_ifd[tag] ELSE <<>>

\* Lines 85-90: the reference, decoded and stripped when it is bytes.
ref_of(gps_ifd, tag, default) ==
    IF tag \notin DOMAIN gps_ifd THEN default
    ELSE IF gps_ifd[tag].t = "bytes"
    THEN (CASE gps_ifd[tag].v = "S " -> "S"
            [] gps_ifd[tag].v = "W " -> "W"
            [] OTHER -> gps_ifd[tag].v)
    ELSE gps_ifd[tag].v

\* min() and max() of a non-empty list.
list_min(list) == CHOOSE x \in Range(list) : \A y \in Range(list) : x <= y
list_max(list) == CHOOSE x \in Range(list) : \A y \in Range(list) : y <= x

InitExif ==
    /\ AnalyzeIdle
    /\ QuotesIdle
    /\ RecordIdle
    /\ TechSpecsIdle
    /\ ex_pc = "main"
    /\ ex_argv_len \in {1, 2, 3}
    /\ ex_isdir \in BOOLEAN
    /\ folder \in (IF ex_isdir THEN Folders ELSE {<<>>})
    /\ image_paths = <<>>
    /\ ex_n = 0
    /\ alts = <<>>
    /\ lats = <<>>
    /\ lons = <<>>
    /\ ex_stdout = <<>>
    /\ ex_stderr = <<>>
    /\ ex_exit = -1

\* One line of standard output: "KEY=" followed by nothing, or by x in the format fmt.
BlankLine(k) == [key |-> k, blank |-> TRUE, fmt |-> "", x |-> 0]
ValueLine(k, f, v) == [key |-> k, blank |-> FALSE, fmt |-> f, x |-> v]

extensions == {".jpg", ".jpeg", ".JPG", ".JPEG"}

\* Lines 46-52: the usage and is_dir checks.
ex_main_check_args ==
    /\ ex_pc = "main"
    /\ IF ex_argv_len # 2
       THEN /\ ex_stderr' = Append(ex_stderr, "Usage: collect_imageset_exif.py <imageset_folder_path>")
            /\ ex_exit' = 1
            /\ ex_pc' = "done"
       ELSE IF ~ex_isdir
       THEN /\ ex_stderr' = Append(ex_stderr, "Not a directory")
            /\ ex_exit' = 1
            /\ ex_pc' = "done"
       ELSE /\ ex_pc' = "list"
            /\ UNCHANGED <<ex_stderr, ex_exit>>
    /\ UNCHANGED <<ex_argv_len, ex_isdir, folder, image_paths, ex_n, alts, lats, lons, ex_stdout>>
    /\ UNCHANGED not_exif

\* Lines 54-63: the sorted JPEG files of the folder and the empty lists.
ex_main_list ==
    /\ ex_pc = "list"
    /\ image_paths' = sorted_paths({p \in DOMAIN folder :
                                      folder[p].is_file /\ folder[p].suffix \in extensions})
    /\ ex_n' = 1
    /\ alts' = <<>>
    /\ lats' = <<>>
    /\ lons' = <<>>
    /\ ex_pc' = "loop"
    /\ UNCHANGED <<ex_argv_len, ex_isdir, folder, ex_stdout, ex_stderr, ex_exit>>
    /\ UNCHANGED not_exif

\* Lines 76-80: the altitude of one GPS IFD, appended unless it is None.
alts_with(list, gps_ifd) ==
    LET a == rational_to_float(IfdGet(gps_ifd, "GPSAltitude"), 10)
    IN IF a # <<>> THEN Append(list, a[1]) ELSE list

\* Lines 83-101 for one of latitude and longitude: the decimal value, negated
\* under the reference neg, appended unless it is None.
coords_with(list, gps_ifd, tag, ref_tag, default, neg) ==
    LET val == IfdGet(gps_ifd, tag)
        ref == ref_of(gps_ifd, ref_tag, default)
        x == IF val # <<>> THEN dms_to_decimal(val) ELSE <<>>
    IN IF x # <<>>
       THEN Append(list, IF ref = neg THEN 0 - x[1] ELSE x[1])
       ELSE list

\* Lines 92-93: dms_to_decimal raises on a latitude or longitude that has no len().
dms_raises(gps_ifd) ==
    \/ IfdGet(gps_ifd, "GPSLatitude") = Scalar
    \/ IfdGet(gps_ifd, "GPSLongitude") = Scalar

\* The warning of line 103.
Warning(path, e) == <<"Warning:", path, folder[path].suffix, e>>

ex_main_image_stop_on_failure ==
    /\ ex_pc = "loop"
    /\ ex_n <= Len(image_paths)
    /\ LET path == image_paths[ex_n]
       IN IF folder[path].opens # "ok"
          THEN /\ ex_stderr' = Append(ex_stderr, Warning(path, folder[path].opens))
               /\ ex_n' = Len(image_paths) + 1
               /\ UNCHANGED <<alts, lats, lons>>
          ELSE IF folder[path].gps = <<>>
          THEN /\ ex_n' = ex_n + 1
               /\ UNCHANGED <<alts, lats, lons, ex_stderr>>
          ELSE IF dms_raises(folder[path].gps)
          THEN /\ alts' = alts_with(alts, folder[path].gps)
               /\ ex_stderr' = Append(ex_stderr, Warning(path, "TypeError"))
               /\ ex_n' = Len(image_paths) + 1
               /\ UNCHANGED <<lats, lons>>
          ELSE /\ ex_n' = ex_n + 1
               /\ alts' = alts_with(alts, folder[path].gps)
               /\ lats' = coords_with(lats, folder[path].gps,
                                      "GPSLatitude", "GPSLatitudeRef", "N", "S")
               /\ lons' = coords_with(lons, folder[path].gps,
                                      "GPSLongitude", "GPSLongitudeRef", "E", "W")
               /\ UNCHANGED ex_stderr
    /\ UNCHANGED <<ex_pc, ex_argv_len, ex_isdir, folder, image_paths, ex_stdout, ex_exit>>
    /\ UNCHANGED not_exif

\* Lines 65-103: one iteration of "for path in image_paths".
ex_main_image ==
    /\ ex_pc = "loop"
    /\ ex_n <= Len(image_paths)
    /\ ex_n' = ex_n + 1
    /\ LET path == image_paths[ex_n]
       IN IF folder[path].opens # "ok"
          THEN /\ ex_stderr' = Append(ex_stderr, Warning(path, folder[path].opens))
               /\ UNCHANGED <<alts, lats, lons>>
          ELSE IF folder[path].gps = <<>>
          THEN UNCHANGED <<alts, lats, lons, ex_stderr>>
          ELSE IF dms_raises(folder[path].gps)
          THEN /\ alts' = alts_with(alts, folder[path].gps)
               /\ ex_stderr' = Append(ex_stderr, Warning(path, "TypeError"))
               /\ UNCHANGED <<lats, lons>>
          ELSE /\ alts' = alts_with(alts, folder[path].gps)
               /\ lats' = coords_with(lats, folder[path].gps,
                                      "GPSLatitude", "GPSLatitudeRef", "N", "S")
               /\ lons' = coords_with(lons, folder[path].gps,
                                      "GPSLongitude", "GPSLongitudeRef", "E", "W")
               /\ UNCHANGED ex_stderr
    /\ UNCHANGED <<ex_pc, ex_argv_len, ex_isdir, folder, image_paths, ex_stdout, ex_exit>>
    /\ UNCHANGED not_exif

\* Lines 105-122: the seven lines, after the loop.
ex_main_print ==
    /\ ex_pc = "loop"
    /\ ex_n > Len(image_paths)
    /\ ex_stdout' = ex_stdout
          \o << ValueLine("IMAGE_COUNT", "d", Len(image_paths)) >>
          \o (IF alts # <<>>
              THEN << ValueLine("ALT_MIN", ".1f", list_min(alts)),
                      ValueLine("ALT_MAX", ".1f", list_max(alts)) >>
              ELSE << BlankLine("ALT_MIN"), BlankLine("ALT_MAX") >>)
          \o (IF lats # <<>> /\ lons # <<>>
              THEN << ValueLine("LAT_MIN", ".6f", list_min(lats)),
                      ValueLine("LAT_MAX", ".6f", list_max(lats)),
                      ValueLine("LON_MIN", ".6f", list_min(lons)),
                      ValueLine("LON_MAX", ".6f", list_max(lons)) >>
              ELSE << BlankLine("LAT_MIN"), BlankLine("LAT_MAX"),
                      BlankLine("LON_MIN"), BlankLine("LON_MAX") >>)
    /\ ex_exit' = 0
    /\ ex_pc' = "done"
    /\ UNCHANGED <<ex_argv_len, ex_isdir, folder, image_paths, ex_n, alts, lats, lons, ex_stderr>>
    /\ UNCHANGED not_exif

NextExif ==
    \/ ex_main_check_args
    \/ ex_main_list
    \/ ex_main_image
    \/ ex_main_print

SpecExif == InitExif /\ [][NextExif]_vars

----------------------------------------------------------------------------
(* C21 *)

\* The files of the folder whose name ends in one of the four JPEG spellings.
JpegNames ==
    {p \in DOMAIN folder :
        folder[p].is_file /\ folder[p].suffix \in {".jpg", ".jpeg", ".JPG", ".JPEG"}}

\* The images whose EXIF cannot be read to the end.
ExifFails(p) ==
    \/ folder[p].opens # "ok"
    \/ (folder[p].gps # <<>> /\ dms_raises(folder[p].gps))

\* The images that yield an altitude, a latitude, a longitude.
HasAlt(p) ==
    /\ folder[p].opens = "ok"
    /\ "GPSAltitude" \in DOMAIN folder[p].gps
    /\ rational_to_float(folder[p].gps.GPSAltitude, 10) # <<>>

HasLat(p) ==
    /\ ~ExifFails(p)
    /\ "GPSLatitude" \in DOMAIN folder[p].gps
    /\ dms_to_decimal(folder[p].gps.GPSLatitude) # <<>>

HasLon(p) ==
    /\ ~ExifFails(p)
    /\ "GPSLongitude" \in DOMAIN folder[p].gps
    /\ dms_to_decimal(folder[p].gps.GPSLongitude) # <<>>

\* The latitude of an image as it enters the range: negated under reference S.
SignedLat(p) ==
    LET x == dms_to_decimal(folder[p].gps.GPSLatitude)[1]
    IN IF ref_of(folder[p].gps, "GPSLatitudeRef", "N") = "S" THEN 0 - x ELSE x

\* The longitude of an image as it enters the range: negated under reference W.
SignedLon(p) ==
    LET x == dms_to_decimal(folder[p].gps.GPSLongitude)[1]
    IN IF ref_of(folder[p].gps, "GPSLongitudeRef", "E") = "W" THEN 0 - x ELSE x

ExpectedAlts == {rational_to_float(folder[p].gps.GPSAltitude, 10)[1] : p \in {q \in JpegNames : HasAlt(q)}}
ExpectedLats == {SignedLat(p) : p \in {q \in JpegNames : HasLat(q)}}
ExpectedLons == {SignedLon(p) : p \in {q \in JpegNames : HasLon(q)}}

SetMin(S) == CHOOSE x \in S : \A y \in S : x <= y
SetMax(S) == CHOOSE x \in S : \A y \in S : y <= x

\* C21: for any directory, collect_imageset_exif ends with exactly seven lines
\* on standard output, keyed IMAGE_COUNT, ALT_MIN, ALT_MAX, LAT_MIN, LAT_MAX,
\* LON_MIN, LON_MAX in this order; IMAGE_COUNT is the number of files with a
\* JPEG extension, readable or not; every image that fails gives one warning
\* and the values of all the other images are still collected; the four
\* bounding-box lines are blank unless a latitude and a longitude were
\* collected, and otherwise hold the extremes of the latitudes, negated under
\* S, and of the longitudes, negated under W.
C21_SevenLines ==
    (ex_pc = "done" /\ ex_argv_len = 2 /\ ex_isdir) =>
        /\ ex_exit = 0
        /\ Len(ex_stdout) = 7
        /\ [k \in 1..7 |-> ex_stdout[k].key]
             = <<"IMAGE_COUNT", "ALT_MIN", "ALT_MAX", "LAT_MIN", "LAT_MAX", "LON_MIN", "LON_MAX">>
        /\ ex_stdout[1] = ValueLine("IMAGE_COUNT", "d", Cardinality(JpegNames))
        /\ Len(ex_stderr) = Cardinality({p \in JpegNames : ExifFails(p)})
        /\ \A p \in JpegNames : ExifFails(p) => \E k \in 1..Len(ex_stderr) : ex_stderr[k][2] = p
        /\ Range(alts) = ExpectedAlts
        /\ Range(lats) = ExpectedLats
        /\ Range(lons) = ExpectedLons
        /\ IF ExpectedAlts = {}
           THEN ex_stdout[2].blank /\ ex_stdout[3].blank
           ELSE /\ ex_stdout[2] = ValueLine("ALT_MIN", ".1f", SetMin(ExpectedAlts))
                /\ ex_stdout[3] = ValueLine("ALT_MAX", ".1f", SetMax(ExpectedAlts))
        /\ IF ExpectedLats = {} \/ ExpectedLons = {}
           THEN \A k \in 4..7 : ex_stdout[k].blank
           ELSE /\ ex_stdout[4] = ValueLine("LAT_MIN", ".6f", SetMin(ExpectedLats))
                /\ ex_stdout[5] = ValueLine("LAT_MAX", ".6f", SetMax(ExpectedLats))
                /\ ex_stdout[6] = ValueLine("LON_MIN", ".6f", SetMin(ExpectedLons))
                /\ ex_stdout[7] = ValueLine("LON_MAX", ".6f", SetMax(ExpectedLons))

\* A folder of two JPEG files: the first cannot be opened, the second lies at
\* 40 deg 30' N, 121 deg 15' W, and the longitude printed is -121.25 degrees.
C21_Witness ==
    /\ ex_pc = "done"
    /\ ex_exit = 0
    /\ Len(image_paths) = 2
    /\ folder[image_paths[1]].opens = "UnidentifiedImageError"
    /\ Len(ex_stderr) = 1
    /\ ex_stdout[1].x = 2
    /\ ex_stdout[4] = ValueLine("LAT_MIN", ".6f", 40 * 3600 + 30 * 60)
    /\ ex_stdout[6] = ValueLine("LON_MIN", ".6f", 0 - (121 * 3600 + 15 * 60))
    /\ ex_stdout[2] = ValueLine("ALT_MIN", ".1f", 1234)

====
